---------------------------- MODULE Spec2Model ----------------------------
(***************************************************************************)
(* IntentFI intent settlement engine: the intent lifecycle of the          *)
(* production program (contracts/src/lib.rs), its swap and lending         *)
(* integrations (integrations.rs, lending_integrations.rs).                *)
(*                                                                         *)
(* u64 / u128 quantities are wide naturals: little-endian sequences of     *)
(* limbs of radix BigBase without leading zero limbs (zero is <<>>), so    *)
(* that products of 64-bit amounts are computed exactly.  Counters,        *)
(* timestamps and basis-point fields are small and stay plain integers.    *)
(* Option<T> is a sequence: None == <<>>, Some(x) == <<x>>.                 *)
(***************************************************************************)
EXTENDS Integers, Sequences, FiniteSets, TLC

----------------------------------------------------------------------------
(* Wide naturals                                                           *)

BigBase == 10000

RECURSIVE BigNorm(_)
BigNorm(s) ==
    IF s = <<>> THEN <<>>
    ELSE IF s[Len(s)] = 0 THEN BigNorm(SubSeq(s, 1, Len(s) - 1))
    ELSE s

RECURSIVE BigFromNat(_)
BigFromNat(n) ==
    IF n = 0 THEN <<>> ELSE <<n % BigBase>> \o BigFromNat(n \div BigBase)

BigLimb(a, i) == IF i <= Len(a) THEN a[i] ELSE 0

RECURSIVE BigAddFrom(_, _, _, _)
BigAddFrom(a, b, i, c) ==
    IF i > Len(a) /\ i > Len(b)
    THEN (IF c = 0 THEN <<>> ELSE <<c>>)
    ELSE LET s == BigLimb(a, i) + BigLimb(b, i) + c
         IN  <<s % BigBase>> \o BigAddFrom(a, b, i + 1, s \div BigBase)

BigAdd(a, b) == BigAddFrom(a, b, 1, 0)

RECURSIVE BigCmpFrom(_, _, _)
BigCmpFrom(a, b, i) ==
    IF i = 0 THEN 0
    ELSE IF a[i] < b[i] THEN -1
    ELSE IF a[i] > b[i] THEN 1
    ELSE BigCmpFrom(a, b, i - 1)

\* -1, 0, 1 as a < b, a = b, a > b
BigCmp(a, b) ==
    IF Len(a) < Len(b) THEN -1
    ELSE IF Len(a) > Len(b) THEN 1
    ELSE BigCmpFrom(a, b, Len(a))

BigLe(a, b) == BigCmp(a, b) <= 0
BigLt(a, b) == BigCmp(a, b) < 0

RECURSIVE BigSubFrom(_, _, _, _)
BigSubFrom(a, b, i, borrow) ==
    IF i > Len(a) THEN <<>>
    ELSE LET d == a[i] - BigLimb(b, i) - borrow
         IN  IF d < 0
             THEN <<d + BigBase>> \o BigSubFrom(a, b, i + 1, 1)
             ELSE <<d>> \o BigSubFrom(a, b, i + 1, 0)

\* a - b for a >= b
BigSub(a, b) == BigNorm(BigSubFrom(a, b, 1, 0))

RECURSIVE BigMulSmallFrom(_, _, _, _)
BigMulSmallFrom(a, k, i, c) ==
    IF i > Len(a)
    THEN (IF c = 0 THEN <<>> ELSE <<c>>)
    ELSE LET p == a[i] * k + c
         IN  <<p % BigBase>> \o BigMulSmallFrom(a, k, i + 1, p \div BigBase)

\* a * k for a limb k in 0 .. BigBase - 1
BigMulSmall(a, k) == IF k = 0 THEN <<>> ELSE BigMulSmallFrom(a, k, 1, 0)

BigShift(a) == IF a = <<>> THEN <<>> ELSE <<0>> \o a

RECURSIVE BigMulFrom(_, _, _)
BigMulFrom(a, b, i) ==
    IF i > Len(b) THEN <<>>
    ELSE BigAdd(BigMulSmall(a, b[i]), BigShift(BigMulFrom(a, b, i + 1)))

BigMul(a, b) == BigMulFrom(a, b, 1)

\* the largest limb q in lo .. hi with q * b <= r
RECURSIVE BigQuotDigit(_, _, _, _)
BigQuotDigit(r, b, lo, hi) ==
    IF lo = hi THEN lo
    ELSE LET mid == (lo + hi + 1) \div 2
         IN  IF BigLe(BigMulSmall(b, mid), r)
             THEN BigQuotDigit(r, b, mid, hi)
             ELSE BigQuotDigit(r, b, lo, mid - 1)

RECURSIVE BigDivFrom(_, _, _, _)
BigDivFrom(a, b, i, rem) ==
    IF i = 0 THEN [q |-> <<>>, r |-> rem]
    ELSE IF BigLt(BigNorm(<<a[i]>> \o rem), b)
    THEN LET rest == BigDivFrom(a, b, i - 1, BigNorm(<<a[i]>> \o rem))
         IN  [q |-> rest.q \o <<0>>, r |-> rest.r]
    ELSE LET r1   == BigNorm(<<a[i]>> \o rem)
             d    == BigQuotDigit(r1, b, 1, BigBase - 1)
             r2   == BigSub(r1, BigMulSmall(b, d))
             rest == BigDivFrom(a, b, i - 1, r2)
         IN  [q |-> rest.q \o <<d>>, r |-> rest.r]

\* floor(a / b) and a mod b, for b # 0
BigDiv(a, b) == BigNorm(BigDivFrom(a, b, Len(a), <<>>).q)
BigMod(a, b) == BigDivFrom(a, b, Len(a), <<>>).r

Big0 == <<>>
TwoPow16  == BigFromNat(65536)
TwoPow32  == BigMul(TwoPow16, TwoPow16)
TwoPow64  == BigMul(TwoPow32, TwoPow32)
TwoPow128 == BigMul(TwoPow64, TwoPow64)
U64_MAX   == BigSub(TwoPow64, BigFromNat(1))
U128_MAX  == BigSub(TwoPow128, BigFromNat(1))

\* `x as u32`: the low 32 bits
AsU32(x) == BigMod(x, TwoPow32)

\* `x as u64` of a u128 value: the low 64 bits
AsU64(x) == BigMod(x, TwoPow64)

None == <<>>
Some(x) == <<x>>
IsSome(o) == o # <<>>
Unwrap(o) == o[1]

U64(n) == BigFromNat(n)

----------------------------------------------------------------------------
(* Machine arithmetic.  A checked_* call faults on overflow in every build. *)
(* A bare +, -, * faults on overflow when the program is built with        *)
(* overflow checks and wraps otherwise; a division by zero always faults;  *)
(* an `as` cast always truncates.  An X-value carries the wrapped result   *)
(* v, whether some bare operation overflowed (o) and whether a division by *)
(* zero happened (z).                                                      *)

XLit(x) == [v |-> x, o |-> FALSE, z |-> FALSE]

XAdd(m, a, b) ==
    LET s == BigAdd(a.v, b.v)
    IN  [v |-> BigMod(s, m), o |-> a.o \/ b.o \/ BigLe(m, s), z |-> a.z \/ b.z]

XSub(m, a, b) ==
    [v |-> IF BigLe(b.v, a.v) THEN BigSub(a.v, b.v)
           ELSE BigSub(m, BigSub(b.v, a.v)),
     o |-> a.o \/ b.o \/ BigLt(a.v, b.v),
     z |-> a.z \/ b.z]

XMul(m, a, b) ==
    LET p == BigMul(a.v, b.v)
    IN  [v |-> BigMod(p, m), o |-> a.o \/ b.o \/ BigLe(m, p), z |-> a.z \/ b.z]

XDiv(a, b) ==
    IF b.v = Big0 THEN [v |-> Big0, o |-> a.o \/ b.o, z |-> TRUE]
    ELSE [v |-> BigDiv(a.v, b.v), o |-> a.o \/ b.o, z |-> a.z \/ b.z]

\* whether the computation of x aborts the transaction in a build with the
\* given overflow-checks setting
XFaults(x, checks) == x.z \/ (checks /\ x.o)

----------------------------------------------------------------------------
(* Program constants                                                       *)

PROTOCOL_FEE_BPS == 30
MAX_INTENTS_PER_USER == 50
INTENT_EXPIRY_SECONDS == 86400 * 7
MIN_RUGPROOF_SCORE == 70

\* Pubkey::new_from_array([b; 32]) is identified with its byte b
SOL_MINT == 0
USDC_MINT == 1
USDT_MINT == 2
\* a mint outside the major pairs (first byte >= 100)
OTHER_MINT == 200

----------------------------------------------------------------------------
(* integrations.rs: swap venues                                            *)

is_major_pair(from_mint, to_mint) ==
    \/ (from_mint = SOL_MINT  /\ to_mint = USDC_MINT)
    \/ (from_mint = USDC_MINT /\ to_mint = SOL_MINT)
    \/ (from_mint = SOL_MINT  /\ to_mint = USDT_MINT)
    \/ (from_mint = USDT_MINT /\ to_mint = SOL_MINT)
    \/ (from_mint = USDC_MINT /\ to_mint = USDT_MINT)
    \/ (from_mint = USDT_MINT /\ to_mint = USDC_MINT)

LARGE_TRADE_THRESHOLD == BigMul(U64(1000), U64(1000000))

\* choose_best_protocol sending the pairs outside the major ones to Orca
choose_best_protocol_orca(from_mint, to_mint, amount) ==
    IF BigLt(LARGE_TRADE_THRESHOLD, amount) THEN "Jupiter"
    ELSE IF is_major_pair(from_mint, to_mint) THEN "Raydium"
    ELSE "Orca"

\* choose_best_protocol sending a trade of exactly the threshold to Jupiter
choose_best_protocol_inclusive(from_mint, to_mint, amount) ==
    IF BigLe(LARGE_TRADE_THRESHOLD, amount) THEN "Jupiter"
    ELSE IF is_major_pair(from_mint, to_mint) THEN "Raydium"
    ELSE "Jupiter"

choose_best_protocol(from_mint, to_mint, amount) ==
    IF BigLt(LARGE_TRADE_THRESHOLD, amount) THEN "Jupiter"
    ELSE IF is_major_pair(from_mint, to_mint) THEN "Raydium"
    ELSE "Jupiter"

\* calculate_raydium_output dividing before the multiplication by reserve_out
calculate_raydium_output_divide_first(amount_in, reserve_in, reserve_out, fee_numerator, fee_denominator) ==
    IF BigLt(fee_denominator, fee_numerator) THEN [ok |-> FALSE, v |-> Big0]
    ELSE
    LET amount_in_with_fee == BigMul(amount_in, BigSub(fee_denominator, fee_numerator))
        denominator        == BigAdd(BigMul(reserve_in, fee_denominator), amount_in_with_fee)
    IN  IF \/ BigLt(U128_MAX, BigMul(amount_in_with_fee, reserve_out))
           \/ BigLt(U128_MAX, denominator)
           \/ denominator = Big0
        THEN [ok |-> FALSE, v |-> Big0]
        ELSE [ok |-> TRUE,
              v |-> AsU64(BigMul(BigDiv(amount_in_with_fee, denominator), reserve_out))]

\* calculate_raydium_output rounding the quotient up
calculate_raydium_output_rounded_up(amount_in, reserve_in, reserve_out, fee_numerator, fee_denominator) ==
    IF BigLt(fee_denominator, fee_numerator) THEN [ok |-> FALSE, v |-> Big0]
    ELSE
    LET amount_in_with_fee == BigMul(amount_in, BigSub(fee_denominator, fee_numerator))
        numerator          == BigMul(amount_in_with_fee, reserve_out)
        denominator        == BigAdd(BigMul(reserve_in, fee_denominator), amount_in_with_fee)
    IN  IF \/ BigLt(U128_MAX, numerator)
           \/ BigLt(U128_MAX, denominator)
           \/ denominator = Big0
        THEN [ok |-> FALSE, v |-> Big0]
        ELSE [ok |-> TRUE,
              v |-> AsU64(BigDiv(BigAdd(numerator, BigSub(denominator, U64(1))),
                                 denominator))]

\* calculate_raydium_output reading the two reserves the other way round
calculate_raydium_output_reversed(amount_in, reserve_in, reserve_out, fee_numerator, fee_denominator) ==
    IF BigLt(fee_denominator, fee_numerator) THEN [ok |-> FALSE, v |-> Big0]
    ELSE
    LET amount_in_with_fee == BigMul(amount_in, BigSub(fee_denominator, fee_numerator))
        numerator          == BigMul(amount_in_with_fee, reserve_in)
        denominator        == BigAdd(BigMul(reserve_out, fee_denominator), amount_in_with_fee)
    IN  IF \/ BigLt(U128_MAX, numerator)
           \/ BigLt(U128_MAX, denominator)
           \/ denominator = Big0
        THEN [ok |-> FALSE, v |-> Big0]
        ELSE [ok |-> TRUE, v |-> AsU64(BigDiv(numerator, denominator))]

\* Result<u64>: [ok, v]; ok = FALSE is a panic of an unwrap()
calculate_raydium_output(amount_in, reserve_in, reserve_out, fee_numerator, fee_denominator) ==
    IF BigLt(fee_denominator, fee_numerator) THEN [ok |-> FALSE, v |-> Big0]
    ELSE
    LET fee_multiplier     == BigSub(fee_denominator, fee_numerator)
        amount_in_with_fee == BigMul(amount_in, fee_multiplier)
        numerator          == BigMul(amount_in_with_fee, reserve_out)
        den_1              == BigMul(reserve_in, fee_denominator)
        denominator        == BigAdd(den_1, amount_in_with_fee)
    IN  IF \/ BigLt(U128_MAX, amount_in_with_fee)
           \/ BigLt(U128_MAX, numerator)
           \/ BigLt(U128_MAX, den_1)
           \/ BigLt(U128_MAX, denominator)
           \/ denominator = Big0
        THEN [ok |-> FALSE, v |-> Big0]
        ELSE [ok |-> TRUE, v |-> AsU64(BigDiv(numerator, denominator))]

RAYDIUM_FEE_NUMERATOR == 25
RAYDIUM_FEE_DENOMINATOR == 10000

\* require!(output_amount >= params.minimum_amount_out, SlippageExceeded).
\* Result<u64>: [result, v]
RequireMinimumOut(output_amount, minimum_amount_out) ==
    IF ~output_amount.ok THEN [result |-> "Panic", v |-> Big0]
    ELSE IF ~BigLe(minimum_amount_out, output_amount.v)
    THEN [result |-> "SlippageExceeded", v |-> Big0]
    ELSE [result |-> "Ok", v |-> output_amount.v]

\* the reserves are read as (pool_coin_amount, pool_pc_amount) whatever the
\* direction of the swap
execute_raydium_swap_simple(params, pool_info) ==
    RequireMinimumOut(
        calculate_raydium_output(params.amount_in,
                                 pool_info.pool_coin_amount,
                                 pool_info.pool_pc_amount,
                                 U64(RAYDIUM_FEE_NUMERATOR),
                                 U64(RAYDIUM_FEE_DENOMINATOR)),
        params.minimum_amount_out)

\* jupiter::execute_jupiter_swap, the variant that takes the route quote as
\* the output after matching it against the request.  No instruction of the
\* program calls it.  Result<u64>: [result, v]
execute_jupiter_swap(swap_params, jupiter_swap_data) ==
    IF jupiter_swap_data.in_amount # swap_params.amount
    THEN [result |-> "InvalidAmount", v |-> Big0]
    ELSE IF jupiter_swap_data.slippage_bps # swap_params.slippage_bps
    THEN [result |-> "SlippageExceeded", v |-> Big0]
    ELSE [result |-> "Ok", v |-> jupiter_swap_data.quoted_out_amount]

JUPITER_BASE_RATE == 950

\* Result<u64>: [result, v]; the route data is not read
execute_jupiter_swap_simple(params, swap_data) ==
    [result |-> "Ok",
     v |-> AsU64(BigDiv(BigMul(params.amount, U64(JUPITER_BASE_RATE)), U64(1000)))]

----------------------------------------------------------------------------
(* lending_integrations.rs: lending venues                                 *)

LARGE_LEND_THRESHOLD == BigMul(U64(10000), U64(1000000))

\* choose_best_lending_protocol sending exactly the threshold to Solend
choose_best_lending_protocol_inclusive(mint, amount) ==
    IF BigLe(LARGE_LEND_THRESHOLD, amount) THEN "Solend" ELSE "PortFinance"

choose_best_lending_protocol(mint, amount) ==
    IF BigLt(LARGE_LEND_THRESHOLD, amount) THEN "Solend" ELSE "PortFinance"

\* the yields get_best_apy_for_token compares (its locals solend_apy, port_apy)
SOLEND_QUOTED_APY == 650
PORT_QUOTED_APY == 580

\* the comparison at the end of get_best_apy_for_token.
\* (LendingProtocol, u16): [protocol, apy]
best_of_quoted(solend_apy, port_apy) ==
    IF solend_apy > port_apy
    THEN [protocol |-> "Solend", apy |-> solend_apy]
    ELSE [protocol |-> "PortFinance", apy |-> port_apy]

\* get_best_apy_for_token answering with the lower of the two yields
get_best_apy_for_token_lowest(mint) ==
    best_of_quoted(PORT_QUOTED_APY, SOLEND_QUOTED_APY)

get_best_apy_for_token(mint) ==
    best_of_quoted(SOLEND_QUOTED_APY, PORT_QUOTED_APY)

\* `x as u16`
AsU16(x) == BigMod(x, TwoPow16)

\* a wide natural below 2^16 as a plain integer
BigToNat(x) == BigLimb(x, 1) + BigBase * BigLimb(x, 2)

\* the two branches of the borrow curve, on X-values in u128
BorrowCurveAt(utilization_rate, base_rate, optimal_rate, max_rate, optimal_util) ==
    IF BigLe(utilization_rate.v, optimal_util.v)
    THEN XAdd(TwoPow128, base_rate,
              XDiv(XMul(TwoPow128, XSub(TwoPow128, optimal_rate, base_rate),
                        utilization_rate),
                   optimal_util))
    ELSE XAdd(TwoPow128, optimal_rate,
              XDiv(XMul(TwoPow128, XSub(TwoPow128, max_rate, optimal_rate),
                        XSub(TwoPow128, utilization_rate, optimal_util)),
                   XSub(TwoPow128, XLit(U64(10000)), optimal_util)))

\* the piecewise-linear borrow curve both venues use
BorrowCurve(utilization_rate, config) ==
    BorrowCurveAt(utilization_rate,
                  XLit(U64(config.min_borrow_rate)),
                  XLit(U64(config.optimal_borrow_rate)),
                  XLit(U64(config.max_borrow_rate)),
                  XMul(TwoPow128, XLit(U64(config.optimal_utilization_rate)),
                       XLit(U64(100))))

SOLEND_LENDING_SHARE == 70
PORT_LENDING_SHARE == 75

\* `x as u16` at the end of an APY computation.  Result<u16>: [ok, v];
\* ok = FALSE is an arithmetic fault
CastU16(x, checks) ==
    IF XFaults(x, checks) THEN [ok |-> FALSE, v |-> 0]
    ELSE [ok |-> TRUE, v |-> BigToNat(AsU16(x.v))]

\* borrow_apy * share / 100, in u128
LendingShare(borrow_apy, share) ==
    XDiv(XMul(TwoPow128, borrow_apy, XLit(U64(share))), XLit(U64(100)))

\* solend: utilization_rate, in u128
SolendUtilization(reserve) ==
    IF reserve.liquidity.available_amount = Big0 THEN XLit(Big0)
    ELSE XDiv(XMul(TwoPow128, XLit(reserve.liquidity.borrowed_amount_wads),
                   XLit(U64(10000))),
              XAdd(TwoPow128, XLit(reserve.liquidity.available_amount),
                   XLit(reserve.liquidity.borrowed_amount_wads)))

calculate_lending_apy(reserve, checks) ==
    CastU16(LendingShare(BorrowCurve(SolendUtilization(reserve), reserve.config),
                         SOLEND_LENDING_SHARE), checks)

\* utilization from total_liquidity = available_amount + borrowed_amount (u64)
PortUtilization(reserve, total_liquidity) ==
    IF total_liquidity.v = Big0
    THEN [v |-> Big0, o |-> total_liquidity.o, z |-> FALSE]
    ELSE XDiv(XMul(TwoPow128, XLit(reserve.liquidity.borrowed_amount), XLit(U64(10000))),
              total_liquidity)

\* port_finance: total_liquidity, in u64
PortTotalLiquidity(reserve) ==
    XAdd(TwoPow64, XLit(reserve.liquidity.available_amount),
         XLit(reserve.liquidity.borrowed_amount))

calculate_port_apy(reserve, checks) ==
    CastU16(LendingShare(
        BorrowCurve(PortUtilization(reserve, PortTotalLiquidity(reserve)),
                    reserve.config),
        PORT_LENDING_SHARE), checks)

\* require!(current_apy >= intent_account.min_apy.unwrap_or(0), APYTooLow).
\* Result<u16>: [result, v]
RequireApy(current_apy, min_apy) ==
    IF ~current_apy.ok THEN [result |-> "Panic", v |-> 0]
    ELSE IF ~(current_apy.v >= (IF IsSome(min_apy) THEN Unwrap(min_apy) ELSE 0))
    THEN [result |-> "APYTooLow", v |-> 0]
    ELSE [result |-> "Ok", v |-> current_apy.v]

execute_solend_lend(intent_account, reserve_data, checks) ==
    IF reserve_data.liquidity.mint_pubkey # intent_account.from_mint
    THEN [result |-> "InvalidAmount", v |-> 0]
    ELSE RequireApy(calculate_lending_apy(reserve_data, checks), intent_account.min_apy)

execute_port_lend(intent_account, reserve_data, checks) ==
    IF reserve_data.liquidity.mint_pubkey # intent_account.from_mint
    THEN [result |-> "InvalidAmount", v |-> 0]
    ELSE RequireApy(calculate_port_apy(reserve_data, checks), intent_account.min_apy)

----------------------------------------------------------------------------
(* lib.rs: helpers                                                         *)

perform_rugproof_check(mint) ==
    IF mint < 50 THEN 95 ELSE IF mint < 100 THEN 85 ELSE 75

\* ProtocolFee rounding up instead of down
ProtocolFeeRoundedUp(amount, fee_bps) ==
    AsU64(BigDiv(BigAdd(BigMul(amount, U64(fee_bps)), U64(9999)), U64(10000)))

\* (amount as u128).checked_mul(PROTOCOL_FEE_BPS as u128).unwrap()
\*     .checked_div(10000).unwrap() as u64
ProtocolFee(amount, fee_bps) ==
    AsU64(BigDiv(BigMul(amount, U64(fee_bps)), U64(10000)))

----------------------------------------------------------------------------
(* State                                                                   *)

VARIABLES
    overflow_checks,  \* whether the deployed build traps arithmetic overflow
    protocol_state,   \* the ProtocolState account
    user_accounts,    \* the UserAccount of every participant
    intents,          \* the IntentAccounts, in creation order
    token_balance,    \* SPL token account balances
    now,              \* Clock::get()?.unix_timestamp
    call              \* an integration function evaluated on its own: its
                      \* name, its arguments and, once it returned, its result

vars == <<overflow_checks, protocol_state, user_accounts, intents, token_balance, now, call>>

\* no integration function is evaluated on its own
NoCall == [op |-> "none"]

ledger == <<protocol_state, user_accounts, intents, token_balance>>

Users == {"alice", "bob"}
ADMIN == "admin"
Signers == Users \cup {ADMIN}

TREASURY == "treasury_fee_account"
SOLEND_LIQUIDITY == "solend_destination_liquidity"
PORT_RESERVE == "port_reserve"
TokenAccounts == Users \cup {TREASURY, SOLEND_LIQUIDITY, PORT_RESERVE}

\* the most intents created in one behaviour of Spec
MaxIntents == 1

\* the most intents created in one behaviour of AccountsSpec
MaxAccountsIntents == 1

\* the most intents created in one behaviour of LendSpec
MaxLendIntents == 2

\* the most intents created in one behaviour of CapacitySpec
MaxCapacityIntents == 51

\* the most intents created in one behaviour of DevnetSpec
MaxDevnetIntents == 1

\* the most intents created in one behaviour of FeeSpec
MaxFeeIntents == 2

IntentIds == 1 .. Len(intents)

----------------------------------------------------------------------------
(* Inputs                                                                  *)

SMALL_AMOUNT == U64(100000)
LARGE_LEND_AMOUNT == BigAdd(LARGE_LEND_THRESHOLD, U64(1))

InitialBalance(a) ==
    IF a = "alice" THEN BigMul(U64(2), LARGE_LEND_AMOUNT)
    ELSE IF a = "bob" THEN U64(50000)
    ELSE Big0

SwapIntentParamsSet ==
    { [from_mint |-> pr[1], to_mint |-> pr[2], amount |-> a,
       max_slippage |-> sl, rugproof_enabled |-> TRUE] :
        pr \in { <<USDC_MINT, SOL_MINT>>, <<USDC_MINT, OTHER_MINT>> },
        a  \in { Big0, SMALL_AMOUNT },
        sl \in { 100, 5001 } }

LendIntentParamsSet ==
    { [mint |-> USDC_MINT, amount |-> a, min_apy |-> y] :
        a \in { Big0, SMALL_AMOUNT, LARGE_LEND_AMOUNT },
        y \in { 0, 5, 10001 } }

BuyIntentParamsSet ==
    { [mint |-> SOL_MINT, usdc_mint |-> USDC_MINT, usdc_amount |-> a,
       target_price |-> None, max_price_impact |-> 100, rugproof_check |-> TRUE] :
        a \in { Big0, SMALL_AMOUNT } }

\* the fields of JupiterSwapData other than the route plan
JupiterSwapDataSet ==
    { [in_amount |-> U64(99700), quoted_out_amount |-> q, slippage_bps |-> 100,
       platform_fee_bps |-> 0] : q \in { U64(94715), U64(200000) } }

\* the fields of RaydiumPoolInfo the program reads
RaydiumPoolInfoSet ==
    { [coin_mint_address |-> SOL_MINT, pc_mint_address |-> USDC_MINT,
       pool_coin_amount |-> r[1], pool_pc_amount |-> r[2]] :
        r \in { <<U64(1000000), U64(2000000)>>, <<U64(2000000), U64(1000000)>> } }

ReserveConfigSet ==
    { [optimal_utilization_rate |-> 80, min_borrow_rate |-> 2,
       optimal_borrow_rate |-> 10, max_borrow_rate |-> 50],
      [optimal_utilization_rate |-> 80, min_borrow_rate |-> 1,
       optimal_borrow_rate |-> 4, max_borrow_rate |-> 50] }

\* the fields of SolendReserve the program reads
SolendReserveSet ==
    { [liquidity |-> [mint_pubkey |-> mt, available_amount |-> U64(2000),
                      borrowed_amount_wads |-> U64(8000)],
       config |-> c] : mt \in { USDC_MINT, SOL_MINT }, c \in ReserveConfigSet }

\* the fields of PortReserve the program reads
PortReserveSet ==
    { [liquidity |-> [mint_pubkey |-> mt, available_amount |-> U64(2000),
                      borrowed_amount |-> U64(8000)],
       config |-> c] : mt \in { USDC_MINT, SOL_MINT }, c \in ReserveConfigSet }

\* the instants the clock is observed at: around creation and around expiry
ClockInstants ==
    { 0, INTENT_EXPIRY_SECONDS - 1, INTENT_EXPIRY_SECONDS }

----------------------------------------------------------------------------
(* Initial state: initialize_protocol by ADMIN, initialize_user by each    *)
(* participant, funded token accounts.                                      *)

initialize_protocol(authority, treasury_authority) ==
    [authority              |-> authority,
     treasury_authority     |-> treasury_authority,
     protocol_fee_bps       |-> PROTOCOL_FEE_BPS,
     total_fees_collected   |-> Big0,
     total_intents_created  |-> 0,
     total_intents_executed |-> 0,
     is_paused              |-> FALSE]

initialize_user(authority) ==
    [authority             |-> authority,
     active_intents        |-> 0,
     total_intents_created |-> 0,
     total_volume          |-> Big0,
     rugproof_enabled      |-> TRUE]

Init ==
    /\ overflow_checks \in BOOLEAN
    /\ protocol_state = initialize_protocol(ADMIN, ADMIN)
    /\ user_accounts = [u \in Users |-> initialize_user(u)]
    /\ intents = <<>>
    /\ token_balance = [a \in TokenAccounts |-> InitialBalance(a)]
    /\ now = 0
    /\ call = NoCall

----------------------------------------------------------------------------
(* Instruction outcomes.  A handler evaluates to the result it returns,    *)
(* the accounts as it leaves them, and the token transfers it performed up *)
(* to that point.                                                          *)

Outcome(result, ps, ua, it, tb, tr) ==
    [result |-> result, protocol_state |-> ps, user_accounts |-> ua,
     intents |-> it, token_balance |-> tb, transfers |-> tr]

\* token::transfer(CpiContext::new(program, Transfer {from, to, authority}), amount)
token_transfer(bal, from, to, amount) ==
    IF ~BigLe(amount, bal[from]) THEN [ok |-> FALSE, bal |-> bal]
    ELSE IF from = to THEN [ok |-> TRUE, bal |-> bal]
    ELSE [ok |-> TRUE,
          bal |-> [bal EXCEPT ![from] = BigSub(@, amount), ![to] = BigAdd(@, amount)]]

RECURSIVE BalanceAfter(_, _)
BalanceAfter(bal, tr) ==
    IF tr = <<>> THEN bal
    ELSE BalanceAfter(token_transfer(bal, tr[1].from, tr[1].to, tr[1].amount).bal, Tail(tr))

\* an Err (or a panic) returned after the transfers tr were performed and
\* before any account field was written
Fail(result, tr) ==
    Outcome(result, protocol_state, user_accounts, intents,
            BalanceAfter(token_balance, tr), tr)

\* `x += 1` and `x -= 1` on a u8
IncU8(x, checks) ==
    IF x < 255 THEN [ok |-> TRUE, v |-> x + 1]
    ELSE IF checks THEN [ok |-> FALSE, v |-> x] ELSE [ok |-> TRUE, v |-> 0]

DecU8(x, checks) ==
    IF x > 0 THEN [ok |-> TRUE, v |-> x - 1]
    ELSE IF checks THEN [ok |-> FALSE, v |-> x] ELSE [ok |-> TRUE, v |-> 255]

\* a u64 sum s: a fault in a build with overflow checks, wrapped otherwise
WrapU64(s, checks) ==
    [ok |-> ~(checks /\ BigLe(TwoPow64, s)), v |-> AsU64(s)]

\* `x += y` on a u64
AddU64(x, y, checks) ==
    WrapU64(BigAdd(x, y), checks)

----------------------------------------------------------------------------
(* lib.rs: create                                                          *)

\* HasCapacity with a profile at the ceiling still accepted
HasCapacityInclusive(user_account) ==
    user_account.active_intents <= MAX_INTENTS_PER_USER

\* require!(user_account.active_intents < MAX_INTENTS_PER_USER, ..)
HasCapacity(user_account) ==
    user_account.active_intents < MAX_INTENTS_PER_USER

create_swap_intent(authority, params, checks) ==
    LET user_account == user_accounts[authority]
        protocol_fee == ProtocolFee(params.amount, PROTOCOL_FEE_BPS)
        selected_protocol ==
            choose_best_protocol(params.from_mint, params.to_mint, params.amount)
        intent_account ==
            [authority                 |-> authority,
             intent_type               |-> "Swap",
             status                    |-> "Pending",
             from_mint                 |-> params.from_mint,
             to_mint                   |-> params.to_mint,
             amount                    |-> params.amount,
             protocol_fee              |-> protocol_fee,
             max_slippage              |-> params.max_slippage,
             min_apy                   |-> None,
             target_price              |-> None,
             max_price_impact          |-> None,
             execution_price           |-> None,
             execution_apy             |-> None,
             rugproof_enabled          |-> params.rugproof_enabled,
             selected_swap_protocol    |-> selected_protocol,
             selected_lending_protocol |-> None,
             created_at                |-> now,
             expires_at                |-> now + INTENT_EXPIRY_SECONDS,
             executed_at               |-> None,
             cancelled_at              |-> None]
        active == IncU8(user_account.active_intents, checks)
    IN  IF ~HasCapacity(user_account)
        THEN Fail("TooManyActiveIntents", <<>>)
        ELSE IF protocol_state.is_paused THEN Fail("ProtocolPaused", <<>>)
        ELSE IF ~BigLt(Big0, params.amount) THEN Fail("InvalidAmount", <<>>)
        ELSE IF ~(params.max_slippage <= 5000) THEN Fail("SlippageTooHigh", <<>>)
        ELSE IF /\ params.rugproof_enabled
                /\ ~(perform_rugproof_check(params.to_mint) >= MIN_RUGPROOF_SCORE)
        THEN Fail("RugproofCheckFailed", <<>>)
        ELSE IF ~active.ok \/ BigLt(params.amount, protocol_fee) THEN Fail("Panic", <<>>)
        ELSE Outcome("Ok",
                 [protocol_state EXCEPT !.total_intents_created = @ + 1],
                 [user_accounts EXCEPT ![authority].active_intents = active.v,
                                       ![authority].total_intents_created = @ + 1],
                 Append(intents, intent_account),
                 token_balance, <<>>)

create_lend_intent(authority, params, checks) ==
    LET user_account == user_accounts[authority]
        protocol_fee == ProtocolFee(params.amount, PROTOCOL_FEE_BPS)
        selected_protocol == choose_best_lending_protocol(params.mint, params.amount)
        intent_account ==
            [authority                 |-> authority,
             intent_type               |-> "Lend",
             status                    |-> "Pending",
             from_mint                 |-> params.mint,
             to_mint                   |-> params.mint,
             amount                    |-> params.amount,
             protocol_fee              |-> protocol_fee,
             max_slippage              |-> 0,
             min_apy                   |-> Some(params.min_apy),
             target_price              |-> None,
             max_price_impact          |-> None,
             execution_price           |-> None,
             execution_apy             |-> None,
             rugproof_enabled          |-> FALSE,
             selected_swap_protocol    |-> "Jupiter",
             selected_lending_protocol |-> Some(selected_protocol),
             created_at                |-> now,
             expires_at                |-> now + INTENT_EXPIRY_SECONDS,
             executed_at               |-> None,
             cancelled_at              |-> None]
        active == IncU8(user_account.active_intents, checks)
    IN  IF ~HasCapacity(user_account)
        THEN Fail("TooManyActiveIntents", <<>>)
        ELSE IF protocol_state.is_paused THEN Fail("ProtocolPaused", <<>>)
        ELSE IF ~BigLt(Big0, params.amount) THEN Fail("InvalidAmount", <<>>)
        ELSE IF ~(params.min_apy > 0 /\ params.min_apy <= 10000) THEN Fail("InvalidAPY", <<>>)
        ELSE IF ~active.ok THEN Fail("Panic", <<>>)
        ELSE Outcome("Ok",
                 [protocol_state EXCEPT !.total_intents_created = @ + 1],
                 [user_accounts EXCEPT ![authority].active_intents = active.v,
                                       ![authority].total_intents_created = @ + 1],
                 Append(intents, intent_account),
                 token_balance, <<>>)

create_buy_intent(authority, params, checks) ==
    LET user_account == user_accounts[authority]
        protocol_fee == ProtocolFee(params.usdc_amount, PROTOCOL_FEE_BPS)
        intent_account ==
            [authority                 |-> authority,
             intent_type               |-> "Buy",
             status                    |-> "Pending",
             from_mint                 |-> params.usdc_mint,
             to_mint                   |-> params.mint,
             amount                    |-> params.usdc_amount,
             protocol_fee              |-> protocol_fee,
             max_slippage              |-> 0,
             min_apy                   |-> None,
             target_price              |-> params.target_price,
             max_price_impact          |-> Some(params.max_price_impact),
             execution_price           |-> None,
             execution_apy             |-> None,
             rugproof_enabled          |-> params.rugproof_check,
             selected_swap_protocol    |-> "Jupiter",
             selected_lending_protocol |-> None,
             created_at                |-> now,
             expires_at                |-> now + INTENT_EXPIRY_SECONDS,
             executed_at               |-> None,
             cancelled_at              |-> None]
        active == IncU8(user_account.active_intents, checks)
    IN  IF ~HasCapacity(user_account)
        THEN Fail("TooManyActiveIntents", <<>>)
        ELSE IF protocol_state.is_paused THEN Fail("ProtocolPaused", <<>>)
        ELSE IF ~BigLt(Big0, params.usdc_amount) THEN Fail("InvalidAmount", <<>>)
        ELSE IF /\ params.rugproof_check
                /\ ~(perform_rugproof_check(params.mint) >= MIN_RUGPROOF_SCORE)
        THEN Fail("RugproofCheckFailed", <<>>)
        ELSE IF ~active.ok THEN Fail("Panic", <<>>)
        ELSE Outcome("Ok",
                 [protocol_state EXCEPT !.total_intents_created = @ + 1],
                 [user_accounts EXCEPT ![authority].active_intents = active.v,
                                       ![authority].total_intents_created = @ + 1],
                 Append(intents, intent_account),
                 token_balance, <<>>)

----------------------------------------------------------------------------
(* lib.rs: execute.  The first tests of each handler are the constraints   *)
(* of its Accounts struct, which Anchor checks before the handler runs.    *)

\* IsPending testing only for a cancellation
IsNotCancelled(intent_account) ==
    intent_account.status # "Cancelled"

\* require!(intent_account.status == IntentStatus::Pending, ..)
IsPending(intent_account) ==
    intent_account.status = "Pending"

\* NotExpired with the expiry instant itself still accepted
NotExpiredInclusive(intent_account) ==
    now <= intent_account.expires_at

\* require!(clock.unix_timestamp < intent_account.expires_at, ..)
NotExpired(intent_account) ==
    now < intent_account.expires_at

\* SwapProtocolIs accepting any swap venue the router can select
SwapProtocolIsAny(intent_account, protocol) ==
    intent_account.selected_swap_protocol \in {"Jupiter", "Raydium", protocol}

\* require!(intent_account.selected_swap_protocol == SwapProtocol::.., ..)
SwapProtocolIs(intent_account, protocol) ==
    intent_account.selected_swap_protocol = protocol

\* require!(intent_account.selected_lending_protocol == Some(LendingProtocol::..), ..)
LendingProtocolIs(intent_account, protocol) ==
    intent_account.selected_lending_protocol = Some(protocol)

\* intent_account.amount.checked_sub(protocol_fee).unwrap()
net_amount_of(intent_account) ==
    BigSub(intent_account.amount, intent_account.protocol_fee)

\* settlement_fee_of with the fee computed again at settlement, on the net
\* amount
settlement_fee_recomputed(intent_account) ==
    ProtocolFee(net_amount_of(intent_account), PROTOCOL_FEE_BPS)

\* let protocol_fee = ctx.accounts.intent_account.protocol_fee;
settlement_fee_of(intent_account) ==
    intent_account.protocol_fee

\* record_execution adding the fee to the total at the rate in force
\* instead of the fee stored on the intent
record_execution_fee_of_net(id, ua, field, value, bal, tr, checks) ==
    LET active == DecU8(user_accounts[ua].active_intents, checks)
        volume == AddU64(user_accounts[ua].total_volume, intents[id].amount, checks)
        fees   == AddU64(protocol_state.total_fees_collected,
                         ProtocolFee(net_amount_of(intents[id]), PROTOCOL_FEE_BPS), checks)
    IN  IF ~active.ok \/ ~volume.ok \/ ~fees.ok THEN Fail("Panic", tr)
        ELSE Outcome("Ok",
                 [protocol_state EXCEPT !.total_intents_executed = @ + 1,
                                        !.total_fees_collected = fees.v],
                 [user_accounts EXCEPT ![ua].active_intents = active.v,
                                       ![ua].total_volume = volume.v],
                 [intents EXCEPT ![id].status = "Executed",
                                 ![id].executed_at = Some(now),
                                 ![id][field] = Some(value)],
                 bal, tr)

\* the statements that end each execute handler: the intent is stamped with
\* the realized value and the counters of the passed profile and of the
\* protocol are updated
record_execution(id, ua, field, value, bal, tr, checks) ==
    LET active == DecU8(user_accounts[ua].active_intents, checks)
        volume == AddU64(user_accounts[ua].total_volume, intents[id].amount, checks)
        fees   == AddU64(protocol_state.total_fees_collected, intents[id].protocol_fee,
                         checks)
    IN  IF ~active.ok \/ ~volume.ok \/ ~fees.ok THEN Fail("Panic", tr)
        ELSE Outcome("Ok",
                 [protocol_state EXCEPT !.total_intents_executed = @ + 1,
                                        !.total_fees_collected = fees.v],
                 [user_accounts EXCEPT ![ua].active_intents = active.v,
                                       ![ua].total_volume = volume.v],
                 [intents EXCEPT ![id].status = "Executed",
                                 ![id].executed_at = Some(now),
                                 ![id][field] = Some(value)],
                 bal, tr)

\* a swap handler after its guards: the fee goes to the treasury, the venue
\* is called, the execution is recorded.  fault: an unwrap() panics between
\* the fee transfer and the venue call
settle_swap(user, id, ua, fault, estimated_output, checks) ==
    LET protocol_fee == settlement_fee_of(intents[id])
        fee_transfer == token_transfer(token_balance, user, TREASURY, protocol_fee)
        fee_done     == << [from |-> user, to |-> TREASURY, amount |-> protocol_fee] >>
    IN  IF BigLt(intents[id].amount, protocol_fee) THEN Fail("Panic", <<>>)
        ELSE IF ~fee_transfer.ok THEN Fail("InsufficientFunds", <<>>)
        ELSE IF fault THEN Fail("Panic", fee_done)
        ELSE IF estimated_output.result # "Ok" THEN Fail(estimated_output.result, fee_done)
        ELSE record_execution(id, ua, "execution_price", estimated_output.v,
                              fee_transfer.bal, fee_done, checks)

\* execute_swap_intent_jupiter without the constraint binding the intent to
\* the signer
execute_swap_intent_jupiter_by_anyone(user, id, ua, jupiter_swap_data, checks) ==
    IF ua # user THEN Fail("ConstraintSeeds", <<>>)
    ELSE IF ~IsPending(intents[id]) THEN Fail("IntentNotPending", <<>>)
    ELSE IF ~NotExpired(intents[id]) THEN Fail("IntentExpired", <<>>)
    ELSE IF ~SwapProtocolIs(intents[id], "Jupiter") THEN Fail("WrongProtocol", <<>>)
    ELSE settle_swap(user, id, ua, FALSE,
             execute_jupiter_swap_simple(
                 [from_mint        |-> intents[id].from_mint,
                  to_mint          |-> intents[id].to_mint,
                  amount           |-> net_amount_of(intents[id]),
                  slippage_bps     |-> intents[id].max_slippage,
                  platform_fee_bps |-> 0],
                 jupiter_swap_data),
             checks)

execute_swap_intent_jupiter(user, id, ua, jupiter_swap_data, checks) ==
    IF intents[id].authority # user THEN Fail("ConstraintRaw", <<>>)
    ELSE IF ua # user THEN Fail("ConstraintSeeds", <<>>)
    ELSE IF ~IsPending(intents[id]) THEN Fail("IntentNotPending", <<>>)
    ELSE IF ~NotExpired(intents[id]) THEN Fail("IntentExpired", <<>>)
    ELSE IF ~SwapProtocolIs(intents[id], "Jupiter") THEN Fail("WrongProtocol", <<>>)
    ELSE settle_swap(user, id, ua, FALSE,
             execute_jupiter_swap_simple(
                 [from_mint        |-> intents[id].from_mint,
                  to_mint          |-> intents[id].to_mint,
                  amount           |-> net_amount_of(intents[id]),
                  slippage_bps     |-> intents[id].max_slippage,
                  platform_fee_bps |-> 0],
                 jupiter_swap_data),
             checks)

\* lib.rs 243-257: the output the pool gives for the net amount, the
\* reserves taken in the direction of the swap
base_output_of(intent_account, pool_info) ==
    calculate_raydium_output(
        net_amount_of(intent_account),
        IF intent_account.from_mint = pool_info.coin_mint_address
        THEN pool_info.pool_coin_amount ELSE pool_info.pool_pc_amount,
        IF intent_account.from_mint = pool_info.coin_mint_address
        THEN pool_info.pool_pc_amount ELSE pool_info.pool_coin_amount,
        U64(RAYDIUM_FEE_NUMERATOR),
        U64(RAYDIUM_FEE_DENOMINATOR))

\* lib.rs 260-266: base_output less the intent's slippage allowance
minimum_amount_out_of(base_output, max_slippage) ==
    AsU64(BigDiv(BigMul(base_output, U64(10000 - max_slippage)), U64(10000)))

\* lib.rs 261-266 with the fault of 10000_u64.checked_sub(max_slippage).
\* Result<u64>: [ok, v]
slippage_protected(base_output, max_slippage) ==
    IF max_slippage > 10000 THEN [ok |-> FALSE, v |-> Big0]
    ELSE [ok |-> TRUE, v |-> minimum_amount_out_of(base_output, max_slippage)]

execute_swap_intent_raydium(user, id, ua, pool_info, checks) ==
    IF intents[id].authority # user THEN Fail("ConstraintRaw", <<>>)
    ELSE IF ua # user THEN Fail("ConstraintSeeds", <<>>)
    ELSE IF ~IsPending(intents[id]) THEN Fail("IntentNotPending", <<>>)
    ELSE IF ~NotExpired(intents[id]) THEN Fail("IntentExpired", <<>>)
    ELSE IF ~SwapProtocolIs(intents[id], "Raydium") THEN Fail("WrongProtocol", <<>>)
    ELSE settle_swap(user, id, ua,
             \/ ~base_output_of(intents[id], pool_info).ok
             \/ intents[id].max_slippage > 10000,
             execute_raydium_swap_simple(
                 [from_mint          |-> intents[id].from_mint,
                  to_mint            |-> intents[id].to_mint,
                  amount_in          |-> net_amount_of(intents[id]),
                  minimum_amount_out |->
                      minimum_amount_out_of(base_output_of(intents[id], pool_info).v,
                                            intents[id].max_slippage)],
                 pool_info),
             checks)

\* a lend handler after its guards: the fee goes to the token account passed
\* as treasury_fee_account, the venue is called, the net amount is deposited
\* in the account passed as destination, the execution is recorded
settle_lend_to(user, id, ua, treasury_fee_account, destination, actual_apy, checks) ==
    LET protocol_fee == settlement_fee_of(intents[id])
        fee_transfer == token_transfer(token_balance, user, treasury_fee_account,
                                       protocol_fee)
        fee_done     == << [from |-> user, to |-> treasury_fee_account,
                            amount |-> protocol_fee] >>
        net_done     == << [from |-> user, to |-> destination,
                            amount |-> net_amount_of(intents[id])] >>
    IN  IF BigLt(intents[id].amount, protocol_fee) THEN Fail("Panic", <<>>)
        ELSE IF ~fee_transfer.ok THEN Fail("InsufficientFunds", <<>>)
        ELSE IF actual_apy.result # "Ok" THEN Fail(actual_apy.result, fee_done)
        ELSE IF ~token_transfer(fee_transfer.bal, user, destination,
                                net_amount_of(intents[id])).ok
        THEN Fail("InsufficientFunds", fee_done)
        ELSE record_execution(id, ua, "execution_apy", actual_apy.v,
                              BalanceAfter(token_balance, fee_done \o net_done),
                              fee_done \o net_done, checks)

\* the lend handlers with the token accounts of the instruction as inputs:
\* ExecuteLendIntentSolend and ExecuteLendIntentPort put no constraint on
\* treasury_fee_account nor on the venue's receiving account
execute_lend_intent_solend_with(user, id, ua, treasury_fee_account, solend_destination_liquidity, reserve_data, checks) ==
    IF intents[id].authority # user THEN Fail("ConstraintRaw", <<>>)
    ELSE IF ~IsPending(intents[id]) THEN Fail("IntentNotPending", <<>>)
    ELSE IF ~NotExpired(intents[id]) THEN Fail("IntentExpired", <<>>)
    ELSE IF ~LendingProtocolIs(intents[id], "Solend") THEN Fail("WrongProtocol", <<>>)
    ELSE settle_lend_to(user, id, ua, treasury_fee_account,
                        solend_destination_liquidity,
                        execute_solend_lend(intents[id], reserve_data, checks), checks)

execute_lend_intent_port_with(user, id, ua, treasury_fee_account, port_reserve, reserve_data, checks) ==
    IF intents[id].authority # user THEN Fail("ConstraintRaw", <<>>)
    ELSE IF ~IsPending(intents[id]) THEN Fail("IntentNotPending", <<>>)
    ELSE IF ~NotExpired(intents[id]) THEN Fail("IntentExpired", <<>>)
    ELSE IF ~LendingProtocolIs(intents[id], "PortFinance") THEN Fail("WrongProtocol", <<>>)
    ELSE settle_lend_to(user, id, ua, treasury_fee_account, port_reserve,
                        execute_port_lend(intents[id], reserve_data, checks), checks)

\* the lend handlers called with the protocol's treasury account and the
\* venue's own liquidity account
execute_lend_intent_solend(user, id, ua, reserve_data, checks) ==
    execute_lend_intent_solend_with(user, id, ua, TREASURY, SOLEND_LIQUIDITY,
                                    reserve_data, checks)

execute_lend_intent_port(user, id, ua, reserve_data, checks) ==
    execute_lend_intent_port_with(user, id, ua, TREASURY, PORT_RESERVE,
                                  reserve_data, checks)

----------------------------------------------------------------------------
(* lib.rs: cancel, pause                                                   *)

\* cancel_intent without its status guard
cancel_intent_any_status(authority, id, ua, checks) ==
    LET active == DecU8(user_accounts[ua].active_intents, checks)
    IN  IF intents[id].authority # authority THEN Fail("ConstraintRaw", <<>>)
        ELSE IF ~active.ok THEN Fail("Panic", <<>>)
        ELSE Outcome("Ok",
                 protocol_state,
                 [user_accounts EXCEPT ![ua].active_intents = active.v],
                 [intents EXCEPT ![id].status = "Cancelled",
                                 ![id].cancelled_at = Some(now)],
                 token_balance, <<>>)

\* cancel_intent refusing while the protocol is paused
cancel_intent_unless_paused(authority, id, ua, checks) ==
    LET intent_account == intents[id]
        active == DecU8(user_accounts[ua].active_intents, checks)
    IN  IF intent_account.authority # authority THEN Fail("ConstraintRaw", <<>>)
        ELSE IF protocol_state.is_paused THEN Fail("ProtocolPaused", <<>>)
        ELSE IF ~IsPending(intent_account) THEN Fail("IntentNotPending", <<>>)
        ELSE IF intent_account.authority # authority THEN Fail("Unauthorized", <<>>)
        ELSE IF ~active.ok THEN Fail("Panic", <<>>)
        ELSE Outcome("Ok",
                 protocol_state,
                 [user_accounts EXCEPT ![ua].active_intents = active.v],
                 [intents EXCEPT ![id].status = "Cancelled",
                                 ![id].cancelled_at = Some(now)],
                 token_balance, <<>>)

cancel_intent(authority, id, ua, checks) ==
    LET intent_account == intents[id]
        active == DecU8(user_accounts[ua].active_intents, checks)
    IN  IF intent_account.authority # authority THEN Fail("ConstraintRaw", <<>>)
        ELSE IF ~IsPending(intent_account) THEN Fail("IntentNotPending", <<>>)
        ELSE IF intent_account.authority # authority THEN Fail("Unauthorized", <<>>)
        ELSE IF ~active.ok THEN Fail("Panic", <<>>)
        ELSE Outcome("Ok",
                 protocol_state,
                 [user_accounts EXCEPT ![ua].active_intents = active.v],
                 [intents EXCEPT ![id].status = "Cancelled",
                                 ![id].cancelled_at = Some(now)],
                 token_balance, <<>>)

\* pause_protocol without its authority requirement
pause_protocol_by_anyone(authority) ==
    Outcome("Ok", [protocol_state EXCEPT !.is_paused = TRUE],
            user_accounts, intents, token_balance, <<>>)

pause_protocol(authority) ==
    IF protocol_state.authority # authority THEN Fail("Unauthorized", <<>>)
    ELSE Outcome("Ok", [protocol_state EXCEPT !.is_paused = TRUE],
                 user_accounts, intents, token_balance, <<>>)

unpause_protocol(authority) ==
    IF protocol_state.authority # authority THEN Fail("Unauthorized", <<>>)
    ELSE Outcome("Ok", [protocol_state EXCEPT !.is_paused = FALSE],
                 user_accounts, intents, token_balance, <<>>)

----------------------------------------------------------------------------
(* The runtime: an instruction is a transaction.  Every account write and  *)
(* every transfer of an instruction that returns an error, or panics, is   *)
(* discarded; only a successful instruction's writes are committed.        *)

\* transaction with the writes of a failed instruction kept
commit_partial(out) ==
    out

transaction(out) ==
    IF out.result = "Ok" THEN out
    ELSE Outcome(out.result, protocol_state, user_accounts, intents, token_balance,
                 out.transfers)

\* one instruction, processed as a transaction
Process(out) ==
    LET done == transaction(out)
    IN  /\ protocol_state' = done.protocol_state
        /\ user_accounts' = done.user_accounts
        /\ intents' = done.intents
        /\ token_balance' = done.token_balance
        /\ UNCHANGED <<overflow_checks, now, call>>

CreateSwapIntentUpTo(n) ==
    \E u \in Users, p \in SwapIntentParamsSet :
        /\ Len(intents) < n
        /\ Process(create_swap_intent(u, p, overflow_checks))

CreateSwapIntent ==
    CreateSwapIntentUpTo(MaxIntents)

CreateLendIntentUpTo(n) ==
    \E u \in Users, p \in LendIntentParamsSet :
        /\ Len(intents) < n
        /\ Process(create_lend_intent(u, p, overflow_checks))

CreateLendIntent ==
    CreateLendIntentUpTo(MaxIntents)

CreateBuyIntentUpTo(n) ==
    \E u \in Users, p \in BuyIntentParamsSet :
        /\ Len(intents) < n
        /\ Process(create_buy_intent(u, p, overflow_checks))

CreateBuyIntent ==
    CreateBuyIntentUpTo(MaxIntents)

ExecuteSwapIntentJupiter ==
    \E u \in Users, id \in IntentIds, ua \in Users, d \in JupiterSwapDataSet :
        Process(execute_swap_intent_jupiter(u, id, ua, d, overflow_checks))

ExecuteSwapIntentRaydium ==
    \E u \in Users, id \in IntentIds, ua \in Users, d \in RaydiumPoolInfoSet :
        Process(execute_swap_intent_raydium(u, id, ua, d, overflow_checks))

ExecuteLendIntentSolend ==
    \E u \in Users, id \in IntentIds, ua \in Users, d \in SolendReserveSet :
        Process(execute_lend_intent_solend(u, id, ua, d, overflow_checks))

ExecuteLendIntentPort ==
    \E u \in Users, id \in IntentIds, ua \in Users, d \in PortReserveSet :
        Process(execute_lend_intent_port(u, id, ua, d, overflow_checks))

CancelIntent ==
    \E u \in Users, id \in IntentIds, ua \in Users :
        Process(cancel_intent(u, id, ua, overflow_checks))

PauseProtocol ==
    \E u \in Signers : Process(pause_protocol(u))

UnpauseProtocol ==
    \E u \in Signers : Process(unpause_protocol(u))

\* Tick with a sweep that stamps the Pending intents whose expiry has passed
TickExpiring ==
    /\ \E t \in ClockInstants : t > now /\ now' = t
    /\ intents' =
           [id \in 1 .. Len(intents) |->
               IF intents[id].status = "Pending" /\ now' >= intents[id].expires_at
               THEN [intents[id] EXCEPT !.status = "Expired"]
               ELSE intents[id]]
    /\ UNCHANGED <<overflow_checks, protocol_state, user_accounts, token_balance, call>>

\* time passes between instructions
Tick ==
    /\ \E t \in ClockInstants : t > now /\ now' = t
    /\ UNCHANGED <<overflow_checks, protocol_state, user_accounts, intents, token_balance, call>>

Next ==
    \/ CreateSwapIntent
    \/ CreateLendIntent
    \/ CreateBuyIntent
    \/ ExecuteSwapIntentJupiter
    \/ ExecuteSwapIntentRaydium
    \/ ExecuteLendIntentSolend
    \/ ExecuteLendIntentPort
    \/ CancelIntent
    \/ PauseProtocol
    \/ UnpauseProtocol
    \/ Tick

Spec == Init /\ [][Next]_vars

\* The instructions whose Accounts struct takes user_account without a seeds
\* constraint, on lend intents of both users, in a build with overflow
\* checks.
LendInit ==
    Init /\ overflow_checks

LendNext ==
    \/ CreateLendIntentUpTo(MaxLendIntents)
    \/ ExecuteLendIntentSolend
    \/ ExecuteLendIntentPort
    \/ CancelIntent

LendSpec == LendInit /\ [][LendNext]_vars

\* Every create, execute and cancel instruction on up to two intents, without
\* pauses and at one instant, so that the protocol's totals are sums over
\* more than one intent.
MaxCountersIntents == 2

CountersNext ==
    \/ CreateSwapIntentUpTo(MaxCountersIntents)
    \/ CreateLendIntentUpTo(MaxCountersIntents)
    \/ CreateBuyIntentUpTo(MaxCountersIntents)
    \/ ExecuteSwapIntentJupiter
    \/ ExecuteSwapIntentRaydium
    \/ ExecuteLendIntentSolend
    \/ ExecuteLendIntentPort
    \/ CancelIntent

CountersSpec == Init /\ [][CountersNext]_vars

\* The same instructions with time passing, so that intents of both users
\* outlive their expiry.
StaleNext ==
    \/ LendNext
    \/ Tick

StaleSpec == LendInit /\ [][StaleNext]_vars

\* The lend instructions with the caller choosing the token accounts passed
\* as treasury_fee_account and as the venue's receiving account.
ExecuteLendIntentSolendWith ==
    \E u \in Users, id \in IntentIds, ua \in Users, t \in TokenAccounts,
       dst \in TokenAccounts, d \in SolendReserveSet :
        Process(execute_lend_intent_solend_with(u, id, ua, t, dst, d, overflow_checks))

ExecuteLendIntentPortWith ==
    \E u \in Users, id \in IntentIds, ua \in Users, t \in TokenAccounts,
       dst \in TokenAccounts, d \in PortReserveSet :
        Process(execute_lend_intent_port_with(u, id, ua, t, dst, d, overflow_checks))

AccountsNext ==
    \/ CreateLendIntentUpTo(MaxAccountsIntents)
    \/ ExecuteLendIntentSolendWith
    \/ ExecuteLendIntentPortWith
    \/ Tick

AccountsSpec == Init /\ [][AccountsNext]_vars

\* The create instructions around the ceiling of active intents: alice
\* files the same swap request until her profile is one short of
\* MAX_INTENTS_PER_USER, then every create request of either user is run,
\* with the protocol paused or not.
FillTo == MAX_INTENTS_PER_USER - 1

FillParams ==
    [from_mint |-> USDC_MINT, to_mint |-> SOL_MINT, amount |-> SMALL_AMOUNT,
     max_slippage |-> 100, rugproof_enabled |-> TRUE]

FillProfile ==
    /\ Len(intents) < FillTo
    /\ Process(create_swap_intent("alice", FillParams, overflow_checks))

NearCapacity == Len(intents) >= FillTo

CapacityNext ==
    \/ FillProfile
    \/ NearCapacity /\ CreateSwapIntentUpTo(MaxCapacityIntents)
    \/ NearCapacity /\ CreateLendIntentUpTo(MaxCapacityIntents)
    \/ NearCapacity /\ CreateBuyIntentUpTo(MaxCapacityIntents)
    \/ PauseProtocol
    \/ UnpauseProtocol

CapacitySpec == Init /\ [][CapacityNext]_vars

----------------------------------------------------------------------------
(* devnet-contract/lib.rs: the simplified program deployed on devnet.  It  *)
(* keeps the same kinds of accounts; its handlers are prefixed devnet_.    *)

DEVNET_PROTOCOL_FEE_BPS == 30
DEVNET_MAX_SLIPPAGE == 1000
DEVNET_MAX_APY == 10000
DEVNET_SWAP_EXPIRY_SECONDS == 3600
DEVNET_LEND_EXPIRY_SECONDS == 7200

devnet_initialize_protocol(authority, treasury_authority) ==
    [authority              |-> authority,
     treasury_authority     |-> treasury_authority,
     protocol_fee_bps       |-> DEVNET_PROTOCOL_FEE_BPS,
     total_intents_created  |-> 0,
     total_intents_executed |-> 0,
     is_paused              |-> FALSE]

devnet_initialize_user(authority) ==
    [authority             |-> authority,
     active_intents        |-> 0,
     total_intents_created |-> 0,
     total_volume          |-> Big0]

\* the IntentAccount a devnet create handler fills in; the fields it does
\* not assign keep the None of the freshly initialised account
devnet_new_intent(authority, intent_type, mint_pair, amount, protocol_fee, max_slippage, min_apy, ttl) ==
    [authority        |-> authority,
     intent_type      |-> intent_type,
     status           |-> "Pending",
     from_mint        |-> mint_pair[1],
     to_mint          |-> mint_pair[2],
     amount           |-> amount,
     protocol_fee     |-> protocol_fee,
     max_slippage     |-> max_slippage,
     min_apy          |-> min_apy,
     execution_output |-> None,
     execution_apy    |-> None,
     created_at       |-> now,
     expires_at       |-> now + ttl,
     executed_at      |-> None,
     cancelled_at     |-> None]

\* the counters a devnet create handler updates, once its intent is filled
devnet_file_intent(authority, intent_account, checks) ==
    IF ~IncU8(user_accounts[authority].active_intents, checks).ok
    THEN Fail("Panic", <<>>)
    ELSE Outcome("Ok",
             [protocol_state EXCEPT !.total_intents_created = @ + 1],
             [user_accounts EXCEPT
                 ![authority].active_intents =
                     IncU8(user_accounts[authority].active_intents, checks).v,
                 ![authority].total_intents_created = @ + 1],
             Append(intents, intent_account),
             token_balance, <<>>)

devnet_create_swap_intent(authority, from_mint, to_mint, amount, max_slippage, checks) ==
    IF protocol_state.is_paused THEN Fail("ProtocolPaused", <<>>)
    ELSE IF ~BigLt(Big0, amount) THEN Fail("InvalidAmount", <<>>)
    ELSE IF ~(max_slippage <= DEVNET_MAX_SLIPPAGE) THEN Fail("SlippageTooHigh", <<>>)
    ELSE devnet_file_intent(authority,
             devnet_new_intent(authority, "Swap", <<from_mint, to_mint>>, amount,
                 ProtocolFee(amount, protocol_state.protocol_fee_bps),
                 Some(max_slippage), None, DEVNET_SWAP_EXPIRY_SECONDS),
             checks)

devnet_create_lend_intent(authority, mint, amount, min_apy, checks) ==
    IF protocol_state.is_paused THEN Fail("ProtocolPaused", <<>>)
    ELSE IF ~BigLt(Big0, amount) THEN Fail("InvalidAmount", <<>>)
    ELSE IF ~(min_apy <= DEVNET_MAX_APY) THEN Fail("InvalidAPY", <<>>)
    ELSE devnet_file_intent(authority,
             devnet_new_intent(authority, "Lend", <<mint, mint>>, amount,
                 ProtocolFee(amount, protocol_state.protocol_fee_bps),
                 None, Some(min_apy), DEVNET_LEND_EXPIRY_SECONDS),
             checks)

\* the statements that end each devnet execute handler
devnet_record_execution(id, ua, field, value, bal, tr, checks) ==
    IF \/ ~DecU8(user_accounts[ua].active_intents, checks).ok
       \/ ~AddU64(user_accounts[ua].total_volume, intents[id].amount, checks).ok
    THEN Fail("Panic", tr)
    ELSE Outcome("Ok",
             [protocol_state EXCEPT !.total_intents_executed = @ + 1],
             [user_accounts EXCEPT
                 ![ua].active_intents =
                     DecU8(user_accounts[ua].active_intents, checks).v,
                 ![ua].total_volume =
                     AddU64(user_accounts[ua].total_volume, intents[id].amount,
                            checks).v],
             [intents EXCEPT ![id].status = "Executed",
                             ![id].executed_at = Some(now),
                             ![id][field] = Some(value)],
             bal, tr)

\* the two transfers of execute_swap_intent: the fee to the treasury, the
\* net amount to the destination account the caller passed
devnet_swap_transfers(user, id, destination) ==
    << [from |-> user, to |-> TREASURY, amount |-> intents[id].protocol_fee],
       [from |-> user, to |-> destination, amount |-> net_amount_of(intents[id])] >>

devnet_execute_swap_intent(user, id, ua, destination, expected_output, checks) ==
    IF intents[id].authority # user THEN Fail("ConstraintRaw", <<>>)
    ELSE IF ~IsPending(intents[id]) THEN Fail("IntentNotPending", <<>>)
    ELSE IF ~NotExpired(intents[id]) THEN Fail("IntentExpired", <<>>)
    ELSE IF intents[id].authority # user THEN Fail("Unauthorized", <<>>)
    ELSE IF BigLt(intents[id].amount, intents[id].protocol_fee) THEN Fail("Panic", <<>>)
    ELSE IF ~token_transfer(token_balance, user, TREASURY, intents[id].protocol_fee).ok
    THEN Fail("InsufficientFunds", <<>>)
    ELSE IF ~token_transfer(
                 token_transfer(token_balance, user, TREASURY,
                                intents[id].protocol_fee).bal,
                 user, destination, net_amount_of(intents[id])).ok
    THEN Fail("InsufficientFunds", SubSeq(devnet_swap_transfers(user, id, destination), 1, 1))
    ELSE devnet_record_execution(id, ua, "execution_output", expected_output,
             BalanceAfter(token_balance, devnet_swap_transfers(user, id, destination)),
             devnet_swap_transfers(user, id, destination), checks)

\* min_apy.unwrap_or(0)
UnwrapOr(o, d) ==
    IF IsSome(o) THEN Unwrap(o) ELSE d

devnet_execute_lend_intent(user, id, ua, actual_apy, checks) ==
    IF intents[id].authority # user THEN Fail("ConstraintRaw", <<>>)
    ELSE IF ~IsPending(intents[id]) THEN Fail("IntentNotPending", <<>>)
    ELSE IF ~NotExpired(intents[id]) THEN Fail("IntentExpired", <<>>)
    ELSE IF intents[id].authority # user THEN Fail("Unauthorized", <<>>)
    ELSE IF ~(actual_apy >= UnwrapOr(intents[id].min_apy, 0)) THEN Fail("APYTooLow", <<>>)
    ELSE IF BigLt(intents[id].amount, intents[id].protocol_fee) THEN Fail("Panic", <<>>)
    ELSE IF ~token_transfer(token_balance, user, TREASURY, intents[id].protocol_fee).ok
    THEN Fail("InsufficientFunds", <<>>)
    ELSE devnet_record_execution(id, ua, "execution_apy", actual_apy,
             token_transfer(token_balance, user, TREASURY, intents[id].protocol_fee).bal,
             << [from |-> user, to |-> TREASURY, amount |-> intents[id].protocol_fee] >>,
             checks)

devnet_cancel_intent(authority, id, ua, checks) ==
    IF intents[id].authority # authority THEN Fail("ConstraintRaw", <<>>)
    ELSE IF ~IsPending(intents[id]) THEN Fail("IntentNotPending", <<>>)
    ELSE IF intents[id].authority # authority THEN Fail("Unauthorized", <<>>)
    ELSE IF ~DecU8(user_accounts[ua].active_intents, checks).ok THEN Fail("Panic", <<>>)
    ELSE Outcome("Ok",
             protocol_state,
             [user_accounts EXCEPT
                 ![ua].active_intents =
                     DecU8(user_accounts[ua].active_intents, checks).v],
             [intents EXCEPT ![id].status = "Cancelled",
                             ![id].cancelled_at = Some(now)],
             token_balance, <<>>)

\* devnet inputs
DevnetSlippages == { 100, DEVNET_MAX_SLIPPAGE + 1 }
DevnetYields == { 0, 5, DEVNET_MAX_APY + 1 }
DevnetAmounts == { Big0, SMALL_AMOUNT }
DevnetExpectedOutputs == { Big0, U64(94715) }
DevnetActualApys == { 0, 4, 7 }

\* the instants the devnet clock is observed at: around creation and around
\* the two expiries
DevnetClockInstants ==
    { 0, DEVNET_SWAP_EXPIRY_SECONDS - 1, DEVNET_SWAP_EXPIRY_SECONDS,
      DEVNET_LEND_EXPIRY_SECONDS - 1, DEVNET_LEND_EXPIRY_SECONDS }

DevnetInit ==
    /\ overflow_checks \in BOOLEAN
    /\ protocol_state = devnet_initialize_protocol(ADMIN, ADMIN)
    /\ user_accounts = [u \in Users |-> devnet_initialize_user(u)]
    /\ intents = <<>>
    /\ token_balance = [a \in TokenAccounts |-> InitialBalance(a)]
    /\ now = 0
    /\ call = NoCall

DevnetCreateSwapIntent ==
    \E u \in Users, a \in DevnetAmounts, sl \in DevnetSlippages :
        /\ Len(intents) < MaxDevnetIntents
        /\ Process(devnet_create_swap_intent(u, USDC_MINT, SOL_MINT, a, sl,
                                             overflow_checks))

DevnetCreateLendIntent ==
    \E u \in Users, a \in DevnetAmounts, y \in DevnetYields :
        /\ Len(intents) < MaxDevnetIntents
        /\ Process(devnet_create_lend_intent(u, USDC_MINT, a, y, overflow_checks))

DevnetExecuteSwapIntent ==
    \E u \in Users, id \in IntentIds, ua \in Users, dst \in Users,
       x \in DevnetExpectedOutputs :
        Process(devnet_execute_swap_intent(u, id, ua, dst, x, overflow_checks))

DevnetExecuteLendIntent ==
    \E u \in Users, id \in IntentIds, ua \in Users, y \in DevnetActualApys :
        Process(devnet_execute_lend_intent(u, id, ua, y, overflow_checks))

DevnetCancelIntent ==
    \E u \in Users, id \in IntentIds, ua \in Users :
        Process(devnet_cancel_intent(u, id, ua, overflow_checks))

DevnetTick ==
    /\ \E t \in DevnetClockInstants : t > now /\ now' = t
    /\ UNCHANGED <<overflow_checks, protocol_state, user_accounts, intents, token_balance, call>>

DevnetNext ==
    \/ DevnetCreateSwapIntent
    \/ DevnetCreateLendIntent
    \/ DevnetExecuteSwapIntent
    \/ DevnetExecuteLendIntent
    \/ DevnetCancelIntent
    \/ DevnetTick

DevnetSpec == DevnetInit /\ [][DevnetNext]_vars

\* The devnet create handlers on a growing profile: alice files swap and
\* lend intents in turn and nothing is executed or cancelled, so that her
\* active_intents passes MAX_INTENTS_PER_USER and reaches the top of u8.
MaxDevnetFill == 256

DevnetFillSwap ==
    /\ Len(intents) < MaxDevnetFill
    /\ Len(intents) % 2 = 0
    /\ Process(devnet_create_swap_intent("alice", USDC_MINT, SOL_MINT, SMALL_AMOUNT,
                                         100, overflow_checks))

DevnetFillLend ==
    /\ Len(intents) < MaxDevnetFill
    /\ Len(intents) % 2 = 1
    /\ Process(devnet_create_lend_intent("alice", USDC_MINT, SMALL_AMOUNT, 5,
                                         overflow_checks))

DevnetFillNext ==
    \/ DevnetFillSwap
    \/ DevnetFillLend

DevnetFillSpec == DevnetInit /\ [][DevnetFillNext]_vars

\* Either program deployed: the production program keeps a fee total in its
\* ProtocolState, the devnet program does not.
IsProduction == "total_fees_collected" \in DOMAIN protocol_state

DeployInit == Init \/ DevnetInit

DeployNext ==
    \/ IsProduction /\ Next
    \/ ~IsProduction /\ DevnetNext

DeploySpec == DeployInit /\ [][DeployNext]_vars

\* The fee formula over the range of its arguments: protocol_fee_bps is a
\* u16 of ProtocolState and the amount a u64; the devnet create handlers
\* compute the fee of the requested amount at the configured rate.
FeeRates == { 0, 30, 10000, 10001, 65535 }

FeeAmounts == { U64(1), U64(3333), SMALL_AMOUNT, U64_MAX }

FeeInit ==
    /\ overflow_checks \in BOOLEAN
    /\ \E r \in FeeRates :
           protocol_state =
               [devnet_initialize_protocol(ADMIN, ADMIN) EXCEPT !.protocol_fee_bps = r]
    /\ user_accounts = [u \in Users |-> devnet_initialize_user(u)]
    /\ intents = <<>>
    /\ token_balance = [a \in TokenAccounts |-> InitialBalance(a)]
    /\ now = 0
    /\ call = NoCall

FeeCreateSwapIntent ==
    \E a \in FeeAmounts :
        /\ Len(intents) < MaxFeeIntents
        /\ Process(devnet_create_swap_intent("alice", USDC_MINT, SOL_MINT, a, 100,
                                             overflow_checks))

FeeCreateLendIntent ==
    \E a \in FeeAmounts :
        /\ Len(intents) < MaxFeeIntents
        /\ Process(devnet_create_lend_intent("alice", USDC_MINT, a, 5, overflow_checks))

FeeNext ==
    \/ FeeCreateSwapIntent
    \/ FeeCreateLendIntent

FeeSpec == FeeInit /\ [][FeeNext]_vars

----------------------------------------------------------------------------
(* The integration functions evaluated on their own: the arguments of a    *)
(* call are fixed when the behaviour starts, the step applies the function *)
(* to them and keeps what it returns.                                      *)

\* a call not yet evaluated
Calling(op, args) == [op |-> op, args |-> args, result |-> None]

Returned == call.op # "none" /\ IsSome(call.result)

\* the state besides the call: a deployed protocol in which no instruction runs
Idle ==
    /\ overflow_checks \in BOOLEAN
    /\ protocol_state = initialize_protocol(ADMIN, ADMIN)
    /\ user_accounts = [u \in Users |-> initialize_user(u)]
    /\ intents = <<>>
    /\ token_balance = [a \in TokenAccounts |-> InitialBalance(a)]
    /\ now = 0

\* the call returns
Return(result) ==
    /\ call.result = None
    /\ call' = [call EXCEPT !.result = Some(result)]
    /\ UNCHANGED <<overflow_checks, protocol_state, user_accounts, intents, token_balance, now>>

\* amounts and reserves around zero, around the values of everyday pools and
\* at the top of u64
AmmAmounts == { Big0, U64(1), U64(10000), U64(99700), U64_MAX }
AmmReserves == { Big0, U64(1), U64(1000000), U64(2000000), U64_MAX }
AmmFeeNumerators == { 0, 25, 10000, 10001 }

RaydiumOutputCalls ==
    { Calling("calculate_raydium_output",
              [amount_in |-> a, reserve_in |-> ri, reserve_out |-> ro,
               fee_numerator |-> U64(f),
               fee_denominator |-> U64(RAYDIUM_FEE_DENOMINATOR)]) :
          a \in AmmAmounts, ri \in AmmReserves, ro \in AmmReserves,
          f \in AmmFeeNumerators }

CalculateRaydiumOutput ==
    /\ call.op = "calculate_raydium_output"
    /\ Return(calculate_raydium_output(call.args.amount_in, call.args.reserve_in,
                                       call.args.reserve_out, call.args.fee_numerator,
                                       call.args.fee_denominator))

\* the fee computation of the create handlers, at the program's rate
ProtocolFeeCalls ==
    { Calling("protocol_fee", [amount |-> a]) :
          a \in AmmAmounts \cup { U64(3333), BigSub(U64_MAX, U64(1)) } }

CalculateProtocolFee ==
    /\ call.op = "protocol_fee"
    /\ Return([ok |-> TRUE, v |-> ProtocolFee(call.args.amount, PROTOCOL_FEE_BPS)])

\* max_slippage is a u16; the create handlers store at most 5000
SlippageSettings == { 0, 100, 5000, 10000, 10001, 65535 }

MinimumAmountOutCalls ==
    { Calling("minimum_amount_out", [base_output |-> b, max_slippage |-> sl]) :
          b \in AmmAmounts \cup { U64(3333), BigSub(U64_MAX, U64(1)) },
          sl \in SlippageSettings }

CalculateMinimumAmountOut ==
    /\ call.op = "minimum_amount_out"
    /\ Return(slippage_protected(call.args.base_output, call.args.max_slippage))

RouterMints == { SOL_MINT, USDC_MINT, USDT_MINT, OTHER_MINT }

\* amounts at zero, on both sides of the large-trade threshold and at the
\* top of u64
RouterAmounts ==
    { Big0, U64(1), BigSub(LARGE_TRADE_THRESHOLD, U64(1)), LARGE_TRADE_THRESHOLD,
      BigAdd(LARGE_TRADE_THRESHOLD, U64(1)), U64_MAX }

ChooseBestProtocolCalls ==
    { Calling("choose_best_protocol", [from_mint |-> f, to_mint |-> t, amount |-> a]) :
          f \in RouterMints, t \in RouterMints, a \in RouterAmounts }

ChooseBestProtocol ==
    /\ call.op = "choose_best_protocol"
    /\ Return(choose_best_protocol(call.args.from_mint, call.args.to_mint,
                                   call.args.amount))

\* amounts at zero, on both sides of the large-lend threshold and at the top
\* of u64
LendRouterAmounts ==
    { Big0, U64(1), BigSub(LARGE_LEND_THRESHOLD, U64(1)), LARGE_LEND_THRESHOLD,
      BigAdd(LARGE_LEND_THRESHOLD, U64(1)), U64_MAX }

ChooseBestLendingProtocolCalls ==
    { Calling("choose_best_lending_protocol", [mint |-> m, amount |-> a]) :
          m \in RouterMints, a \in LendRouterAmounts }

ChooseBestLendingProtocol ==
    /\ call.op = "choose_best_lending_protocol"
    /\ Return(choose_best_lending_protocol(call.args.mint, call.args.amount))

\* the create_lend_intent instruction, which calls the lending router and
\* stores its choice on the new intent
CreateLendIntentCalls ==
    { Calling("create_lend_intent",
              [authority |-> "alice",
               params |-> [mint |-> m, amount |-> a, min_apy |-> 5]]) :
          m \in RouterMints, a \in LendRouterAmounts }

CallCreateLendIntent ==
    /\ call.op = "create_lend_intent"
    /\ call.result = None
    /\ LET done == transaction(create_lend_intent(call.args.authority, call.args.params, overflow_checks))
       IN  /\ protocol_state' = done.protocol_state
           /\ user_accounts' = done.user_accounts
           /\ intents' = done.intents
           /\ token_balance' = done.token_balance
           /\ call' = [call EXCEPT !.result = Some(done.result)]
    /\ UNCHANGED <<overflow_checks, now>>

\* the liquidity of a reserve snapshot as (available, borrowed): empty,
\* fully lent, below, at and above an optimal utilization of 80%, idle, and
\* a pair whose sum does not fit u64
ReserveLiquidities ==
    { <<Big0, Big0>>, <<Big0, U64(8000)>>, <<U64(5000), U64(5000)>>,
      <<U64(2000), U64(8000)>>, <<U64(1000), U64(9000)>>, <<U64(10000), Big0>>,
      <<U64_MAX, U64(1)>> }

\* the rate fields of a reserve configuration (u8 each): two rising curves,
\* a curve starting at 0, a curve with its optimum at 0% and one at 100%,
\* and two whose rates do not rise
ReserveCurves ==
    { [optimal_utilization_rate |-> c[1], min_borrow_rate |-> c[2],
       optimal_borrow_rate |-> c[3], max_borrow_rate |-> c[4]] :
          c \in { <<80, 2, 10, 50>>, <<80, 1, 4, 50>>, <<80, 0, 10, 50>>,
                  <<0, 2, 10, 50>>, <<100, 2, 10, 50>>,
                  <<80, 10, 2, 50>>, <<80, 2, 10, 5>> } }

CalculateLendingApyCalls ==
    { Calling("calculate_lending_apy",
              [reserve |-> [liquidity |-> [available_amount |-> l[1],
                                           borrowed_amount_wads |-> l[2]],
                            config |-> c]]) :
          l \in ReserveLiquidities, c \in ReserveCurves }

\* the function's locals utilization_rate and lending_apy (the borrow rate)
\* are kept next to the Result it returns
CalculateLendingApy ==
    /\ call.op = "calculate_lending_apy"
    /\ Return([utilization_rate |-> SolendUtilization(call.args.reserve),
               borrow_apy |-> BorrowCurve(SolendUtilization(call.args.reserve),
                                          call.args.reserve.config),
               final |-> calculate_lending_apy(call.args.reserve, overflow_checks)])

CalculatePortApyCalls ==
    { Calling("calculate_port_apy",
              [reserve |-> [liquidity |-> [available_amount |-> l[1],
                                           borrowed_amount |-> l[2]],
                            config |-> c]]) :
          l \in ReserveLiquidities, c \in ReserveCurves }

CalculatePortApy ==
    /\ call.op = "calculate_port_apy"
    /\ Return([utilization_rate |->
                   PortUtilization(call.args.reserve,
                                   PortTotalLiquidity(call.args.reserve)),
               borrow_apy |->
                   BorrowCurve(PortUtilization(call.args.reserve,
                                               PortTotalLiquidity(call.args.reserve)),
                               call.args.reserve.config),
               final |-> calculate_port_apy(call.args.reserve, overflow_checks)])

GetBestApyForTokenCalls ==
    { Calling("get_best_apy_for_token", [mint |-> m]) : m \in RouterMints }

GetBestApyForToken ==
    /\ call.op = "get_best_apy_for_token"
    /\ Return(get_best_apy_for_token(call.args.mint))

\* the minimum yields of a lend intent: around the yield the reserves of
\* SolendReserveSet give (7 and 2), and the same figures read as basis points
LendMinApys == { 2, 5, 7, 8, 500, 700, 10000 }

\* execute_solend_lend on the fields of a Pending lend intent it reads
ExecuteSolendLendCalls ==
    { Calling("execute_solend_lend",
              [intent_account |-> [from_mint |-> USDC_MINT, amount |-> SMALL_AMOUNT,
                                   min_apy |-> Some(y)],
               reserve_data |-> r]) :
          y \in LendMinApys, r \in SolendReserveSet }

ExecuteSolendLend ==
    /\ call.op = "execute_solend_lend"
    /\ Return(execute_solend_lend(call.args.intent_account, call.args.reserve_data,
                                  overflow_checks))

CallInit ==
    /\ Idle
    /\ call \in RaydiumOutputCalls \cup ProtocolFeeCalls \cup MinimumAmountOutCalls
               \cup ChooseBestProtocolCalls \cup ChooseBestLendingProtocolCalls
               \cup CreateLendIntentCalls
               \cup CalculateLendingApyCalls \cup CalculatePortApyCalls
               \cup GetBestApyForTokenCalls \cup ExecuteSolendLendCalls

CallNext ==
    \/ CalculateRaydiumOutput
    \/ CalculateProtocolFee
    \/ CalculateMinimumAmountOut
    \/ ChooseBestProtocol
    \/ ChooseBestLendingProtocol
    \/ CallCreateLendIntent
    \/ CalculateLendingApy
    \/ CalculatePortApy
    \/ GetBestApyForToken
    \/ ExecuteSolendLend

CallSpec == CallInit /\ [][CallNext]_vars

----------------------------------------------------------------------------
(* Properties                                                              *)

\* every execute instruction that can be submitted in the current state,
\* with the outcome its handler computes
ExecuteAttempts ==
    { [path |-> "Jupiter", user |-> u, id |-> id, ua |-> ua,
       out |-> execute_swap_intent_jupiter(u, id, ua, d, overflow_checks)] :
          u \in Users, id \in IntentIds, ua \in Users, d \in JupiterSwapDataSet }
    \cup
    { [path |-> "Raydium", user |-> u, id |-> id, ua |-> ua,
       out |-> execute_swap_intent_raydium(u, id, ua, d, overflow_checks)] :
          u \in Users, id \in IntentIds, ua \in Users, d \in RaydiumPoolInfoSet }
    \cup
    { [path |-> "Solend", user |-> u, id |-> id, ua |-> ua,
       out |-> execute_lend_intent_solend(u, id, ua, d, overflow_checks)] :
          u \in Users, id \in IntentIds, ua \in Users, d \in SolendReserveSet }
    \cup
    { [path |-> "PortFinance", user |-> u, id |-> id, ua |-> ua,
       out |-> execute_lend_intent_port(u, id, ua, d, overflow_checks)] :
          u \in Users, id \in IntentIds, ua \in Users, d \in PortReserveSet }

\* every cancel instruction that can be submitted in the current state
CancelAttempts ==
    { [user |-> u, id |-> id, ua |-> ua,
       out |-> cancel_intent(u, id, ua, overflow_checks)] :
          u \in Users, id \in IntentIds, ua \in Users }

\* the accounts and balances an instruction leaves once it is processed
LedgerAfter(out) ==
    << transaction(out).protocol_state, transaction(out).user_accounts,
       transaction(out).intents, transaction(out).token_balance >>

\* the result of an instruction and the accounts it leaves, the pause flag
\* aside
AfterModuloPause(out) ==
    << out.result,
       [transaction(out).protocol_state EXCEPT !.is_paused = FALSE],
       transaction(out).user_accounts, transaction(out).intents,
       transaction(out).token_balance >>

\* what every execute and every cancel instruction that can be submitted in
\* the current state does
ExecuteAndCancelBehaviour ==
    { << a.path, a.user, a.id, a.ua, AfterModuloPause(a.out) >> :
          a \in ExecuteAttempts }
    \cup
    { << "Cancel", a.user, a.id, a.ua, AfterModuloPause(a.out) >> :
          a \in CancelAttempts }

\* pause_protocol and unpause_protocol processed as transactions, with what
\* every execute and cancel did just before kept beside the accounts
ProcessObserved(op, out) ==
    LET done == transaction(out)
    IN  /\ protocol_state' = done.protocol_state
        /\ user_accounts' = done.user_accounts
        /\ intents' = done.intents
        /\ token_balance' = done.token_balance
        /\ call' = [op |-> op, result |-> out.result,
                    before |-> ExecuteAndCancelBehaviour]
        /\ UNCHANGED <<overflow_checks, now>>

PauseProtocolObserved ==
    \E u \in Signers : ProcessObserved("pause_protocol", pause_protocol(u))

UnpauseProtocolObserved ==
    \E u \in Signers : ProcessObserved("unpause_protocol", unpause_protocol(u))

\* the program up to a switch of the flag that is observed, and the switches
\* after it
PauseNext ==
    \/ call = NoCall /\ CreateSwapIntent
    \/ call = NoCall /\ CreateLendIntent
    \/ call = NoCall /\ CreateBuyIntent
    \/ call = NoCall /\ ExecuteSwapIntentJupiter
    \/ call = NoCall /\ ExecuteSwapIntentRaydium
    \/ call = NoCall /\ ExecuteLendIntentSolend
    \/ call = NoCall /\ ExecuteLendIntentPort
    \/ call = NoCall /\ CancelIntent
    \/ call = NoCall /\ PauseProtocol
    \/ call = NoCall /\ UnpauseProtocol
    \/ call = NoCall /\ Tick
    \/ PauseProtocolObserved
    \/ UnpauseProtocolObserved

PauseSpec == Init /\ [][PauseNext]_vars

\* the caller owns the intent and passes their own profile
ByOwner(a) ==
    a.user = intents[a.id].authority /\ a.ua = a.user

PendingIntentsOf(u) ==
    { id \in IntentIds : intents[id].authority = u /\ intents[id].status = "Pending" }

\* C1: in every step, an intent's status changes only from Pending to
\* Executed or from Pending to Cancelled; an Executed or Cancelled intent
\* keeps its status for ever, and no intent is removed.
StatusLifecycle ==
    [][ /\ Len(intents') >= Len(intents)
        /\ \A id \in 1 .. Len(intents) :
              intents'[id].status # intents[id].status =>
                  /\ intents[id].status = "Pending"
                  /\ intents'[id].status \in {"Executed", "Cancelled"} ]_vars

\* an Executed intent with later instants at which instructions were run
StatusLifecycleWitness ==
    \E id \in IntentIds :
        /\ intents[id].status = "Executed"
        /\ now > Unwrap(intents[id].executed_at)

\* C2: every profile's active_intents stays within 0 .. 50, and no cancel
\* reaches its decrement on a profile whose count is 0, whichever profile
\* is passed.
ActiveIntentsInRange ==
    /\ \A u \in Users : user_accounts[u].active_intents <= MAX_INTENTS_PER_USER
    /\ \A a \in CancelAttempts :
          a.out.result \in {"Ok", "Panic"} => user_accounts[a.ua].active_intents > 0

\* C3: each user's active_intents is the number of Pending intents the user
\* owns.
ActiveIntentsCountsPending ==
    \A u \in Users :
        user_accounts[u].active_intents = Cardinality(PendingIntentsOf(u))

TerminalIntentRejects ==
    /\ \A a \in ExecuteAttempts :
          intents[a.id].status # "Pending" =>
              /\ a.out.result \in {"IntentNotPending", "ConstraintRaw", "ConstraintSeeds"}
              /\ ByOwner(a) => a.out.result = "IntentNotPending"
              /\ a.out.transfers = <<>>
              /\ LedgerAfter(a.out) = ledger
    /\ \A a \in CancelAttempts :
          intents[a.id].status # "Pending" =>
              /\ a.out.result \in {"IntentNotPending", "ConstraintRaw"}
              /\ a.user = intents[a.id].authority => a.out.result = "IntentNotPending"
              /\ LedgerAfter(a.out) = ledger

\* the owner resubmits a Cancelled intent for execution and for cancellation
TerminalIntentRejectsWitness ==
    \E a \in ExecuteAttempts, c \in CancelAttempts :
        /\ a.id = c.id
        /\ intents[a.id].status = "Cancelled"
        /\ ByOwner(a) /\ ByOwner(c)
        /\ a.out.result = "IntentNotPending"
        /\ c.out.result = "IntentNotPending"

\* C6: at any instant now >= expires_at no execute path succeeds, a Pending
\* intent submitted by its owner is rejected with IntentExpired and stays
\* Pending, and every Executed intent has created_at <= executed_at <
\* expires_at.
ExecutionBeforeExpiry ==
    /\ \A a \in ExecuteAttempts :
          now >= intents[a.id].expires_at =>
              /\ a.out.result # "Ok"
              /\ (ByOwner(a) /\ intents[a.id].status = "Pending")
                     => a.out.result = "IntentExpired"
              /\ transaction(a.out).intents = intents
    /\ \A id \in IntentIds :
          intents[id].status = "Executed" =>
              /\ intents[id].created_at <= Unwrap(intents[id].executed_at)
              /\ Unwrap(intents[id].executed_at) < intents[id].expires_at

\* the owner submits a Pending intent at the instant it expires
ExecutionBeforeExpiryWitness ==
    \E a \in ExecuteAttempts :
        /\ now = intents[a.id].expires_at
        /\ intents[a.id].status = "Pending"
        /\ a.out.result = "IntentExpired"

\* a swap intent on the path of the other swap venue, or a lend intent on
\* the path of the other lending venue
VenueMismatch(a) ==
    \/ /\ intents[a.id].intent_type = "Swap"
       /\ a.path \in {"Jupiter", "Raydium"}
       /\ intents[a.id].selected_swap_protocol # a.path
    \/ /\ intents[a.id].intent_type = "Lend"
       /\ a.path \in {"Solend", "PortFinance"}
       /\ intents[a.id].selected_lending_protocol # Some(a.path)

\* C7: an execute path whose venue is not the intent's selected venue never
\* succeeds and makes no transfer and no write; submitted by the owner for a
\* Pending, unexpired intent it is rejected with WrongProtocol.
WrongVenueRejected ==
    \A a \in ExecuteAttempts :
        VenueMismatch(a) =>
            /\ a.out.result # "Ok"
            /\ a.out.transfers = <<>>
            /\ << a.out.protocol_state, a.out.user_accounts, a.out.intents,
                  a.out.token_balance >> = ledger
            /\ (ByOwner(a) /\ intents[a.id].status = "Pending"
                           /\ now < intents[a.id].expires_at)
                   => a.out.result = "WrongProtocol"

\* the owner, able to pay the fee, submits a Raydium intent on the Jupiter
\* path and a PortFinance intent on the Solend path
WrongVenueRejectedWitness ==
    \E a \in ExecuteAttempts :
        /\ VenueMismatch(a)
        /\ a.path \in {"Jupiter", "Solend"}
        /\ a.out.result = "WrongProtocol"
        /\ BigLe(intents[a.id].protocol_fee, token_balance[a.user])

\* C8: every successful execution of a swap intent realizes at least
\* floor(quote * (10000 - max_slippage) / 10000), the quote being the
\* venue's quoted_out_amount on the Jupiter path and the computed pool
\* output on the Raydium path.
SwapOutputMeetsMinimum ==
    /\ \A u \in Users, id \in IntentIds, ua \in Users, d \in JupiterSwapDataSet :
          LET out == execute_swap_intent_jupiter(u, id, ua, d, overflow_checks)
          IN  (intents[id].intent_type = "Swap" /\ out.result = "Ok") =>
                  BigLe(minimum_amount_out_of(d.quoted_out_amount,
                                              intents[id].max_slippage),
                        Unwrap(out.intents[id].execution_price))
    /\ \A u \in Users, id \in IntentIds, ua \in Users, d \in RaydiumPoolInfoSet :
          LET out == execute_swap_intent_raydium(u, id, ua, d, overflow_checks)
          IN  (intents[id].intent_type = "Swap" /\ out.result = "Ok") =>
                  BigLe(minimum_amount_out_of(base_output_of(intents[id], d).v,
                                              intents[id].max_slippage),
                        Unwrap(out.intents[id].execution_price))

\* C9: every Executed lend intent records a realized yield, and it is at
\* least the intent's min_apy.
ExecutedLendMeetsMinYield ==
    \A id \in IntentIds :
        (intents[id].intent_type = "Lend" /\ intents[id].status = "Executed") =>
            /\ IsSome(intents[id].execution_apy)
            /\ Unwrap(intents[id].execution_apy) >= Unwrap(intents[id].min_apy)

\* a swap intent on a swap path, or a lend intent on a lend path
OnPathOfKind(a) ==
    \/ intents[a.id].intent_type = "Swap" /\ a.path \in {"Jupiter", "Raydium"}
    \/ intents[a.id].intent_type = "Lend" /\ a.path \in {"Solend", "PortFinance"}

\* the field a successful execution records its realized value in
RealizedField(intent_account) ==
    IF intent_account.intent_type = "Lend" THEN "execution_apy" ELSE "execution_price"

\* C10: a successful execute of a swap intent on a swap path, or of a lend
\* intent on a lend path, changes exactly: the intent's status to
\* Executed, executed_at to now, the realized output (swap) or yield (lend);
\* the owner's active_intents by -1 and total_volume by the intent's amount;
\* total_intents_executed by +1 and total_fees_collected by the intent's
\* protocol_fee.
ExecuteChangesExactly ==
    \A a \in ExecuteAttempts :
        (OnPathOfKind(a) /\ a.out.result = "Ok") =>
            /\ IsSome(a.out.intents[a.id][RealizedField(intents[a.id])])
            /\ a.out.intents =
                   [intents EXCEPT
                       ![a.id].status = "Executed",
                       ![a.id].executed_at = Some(now),
                       ![a.id][RealizedField(intents[a.id])] =
                           a.out.intents[a.id][RealizedField(intents[a.id])]]
            /\ a.out.user_accounts =
                   [user_accounts EXCEPT
                       ![intents[a.id].authority].active_intents = @ - 1,
                       ![intents[a.id].authority].total_volume =
                           BigAdd(@, intents[a.id].amount)]
            /\ a.out.protocol_state =
                   [protocol_state EXCEPT
                       !.total_intents_executed = @ + 1,
                       !.total_fees_collected = BigAdd(@, intents[a.id].protocol_fee)]

\* C11: cancel succeeds only when the intent is Pending and the caller is its
\* owner; it then sets status Cancelled, stamps cancelled_at and decrements
\* the owner's active_intents by exactly 1, changing nothing else; a cancel
\* by a non-owner or on a non-Pending intent fails with no state change.
CancelChangesExactly ==
    \A a \in CancelAttempts :
        /\ a.out.result = "Ok" =>
              /\ a.user = intents[a.id].authority
              /\ intents[a.id].status = "Pending"
              /\ a.out.intents =
                     [intents EXCEPT ![a.id].status = "Cancelled",
                                     ![a.id].cancelled_at = Some(now)]
              /\ a.out.user_accounts =
                     [user_accounts EXCEPT
                         ![intents[a.id].authority].active_intents = @ - 1]
              /\ a.out.protocol_state = protocol_state
              /\ a.out.token_balance = token_balance
        /\ a.user # intents[a.id].authority =>
              /\ a.out.result \in {"Unauthorized", "ConstraintRaw"}
              /\ LedgerAfter(a.out) = ledger
        /\ (a.user = intents[a.id].authority /\ intents[a.id].status # "Pending") =>
              /\ a.out.result = "IntentNotPending"
              /\ LedgerAfter(a.out) = ledger

\* the create requests examined: those the behaviours file and those at the
\* edge of the slippage and yield bounds
SwapRequests ==
    SwapIntentParamsSet \cup { [FillParams EXCEPT !.max_slippage = 5000] }

LendRequests ==
    LendIntentParamsSet
        \cup { [mint |-> USDC_MINT, amount |-> SMALL_AMOUNT, min_apy |-> y] :
                    y \in { 1, 10000 } }

\* every create instruction that can be submitted in the current state, with
\* the outcome its handler computes; bound_ok: the request is within the
\* bound of its kind (slippage for a swap, yield for a lend)
CreateAttempts ==
    { [kind |-> "Swap", user |-> u, amount |-> p.amount,
       bound_ok |-> p.max_slippage <= 5000,
       out |-> create_swap_intent(u, p, overflow_checks)] :
          u \in Users, p \in SwapRequests }
    \cup
    { [kind |-> "Lend", user |-> u, amount |-> p.amount,
       bound_ok |-> p.min_apy > 0 /\ p.min_apy <= 10000,
       out |-> create_lend_intent(u, p, overflow_checks)] :
          u \in Users, p \in LendRequests }
    \cup
    { [kind |-> "Buy", user |-> u, amount |-> p.usdc_amount,
       bound_ok |-> TRUE,
       out |-> create_buy_intent(u, p, overflow_checks)] :
          u \in Users, p \in BuyIntentParamsSet }

\* the caller's profile is at the ceiling of active intents
AtCapacity(a) ==
    user_accounts[a.user].active_intents >= MAX_INTENTS_PER_USER

\* C12: a create is rejected, creating no intent and changing no counter,
\* with TooManyActiveIntents when the caller has 50 active intents, else with
\* ProtocolPaused when the protocol is paused, else with InvalidAmount when
\* the amount is 0, else with SlippageTooHigh for a swap whose slippage is
\* over 5000 and InvalidAPY for a lend whose min_apy is 0 or over 10000;
\* every other request is accepted and creates one intent of the caller.
CreateRejections ==
    \A a \in CreateAttempts :
        IF AtCapacity(a) \/ protocol_state.is_paused \/ a.amount = Big0 \/ ~a.bound_ok
        THEN /\ a.out.result =
                    IF AtCapacity(a) THEN "TooManyActiveIntents"
                    ELSE IF protocol_state.is_paused THEN "ProtocolPaused"
                    ELSE IF a.amount = Big0 THEN "InvalidAmount"
                    ELSE IF a.kind = "Swap" THEN "SlippageTooHigh"
                    ELSE "InvalidAPY"
             /\ << a.out.protocol_state, a.out.user_accounts, a.out.intents,
                   a.out.token_balance >> = ledger
             /\ LedgerAfter(a.out) = ledger
        ELSE /\ a.out.result = "Ok"
             /\ Len(a.out.intents) = Len(intents) + 1
             /\ a.out.intents[Len(intents) + 1].authority = a.user
             /\ a.out.intents[Len(intents) + 1].intent_type = a.kind

\* a profile holds 50 active intents: its owner's well-formed request is
\* refused while the other user's is accepted
CreateRejectionsWitness ==
    \E a, b \in CreateAttempts :
        /\ user_accounts[a.user].active_intents = MAX_INTENTS_PER_USER
        /\ ~protocol_state.is_paused /\ a.amount # Big0 /\ a.bound_ok
        /\ a.out.result = "TooManyActiveIntents"
        /\ b.out.result = "Ok"

\* every devnet create instruction that can be submitted in the current
\* state, with the outcome its handler computes
DevnetCreateAttempts ==
    { [kind |-> "Swap", user |-> u, amount |-> a, ttl |-> DEVNET_SWAP_EXPIRY_SECONDS,
       out |-> devnet_create_swap_intent(u, USDC_MINT, SOL_MINT, a, sl, overflow_checks)] :
          u \in Users, a \in DevnetAmounts, sl \in DevnetSlippages }
    \cup
    { [kind |-> "Lend", user |-> u, amount |-> a, ttl |-> DEVNET_LEND_EXPIRY_SECONDS,
       out |-> devnet_create_lend_intent(u, USDC_MINT, a, y, overflow_checks)] :
          u \in Users, a \in DevnetAmounts, y \in DevnetYields }

\* the field a program records a swap's realized output in
OutputField == IF IsProduction THEN "execution_price" ELSE "execution_output"

\* a successful create by user appended one Pending intent without execution
\* results that expires ttl after its creation, and added 1 to the caller's
\* active_intents and total_intents_created and to the protocol's
\* total_intents_created
CreatedPending(user, ttl, out) ==
    /\ Len(out.intents) = Len(intents) + 1
    /\ SubSeq(out.intents, 1, Len(intents)) = intents
    /\ out.intents[Len(intents) + 1].authority = user
    /\ out.intents[Len(intents) + 1].status = "Pending"
    /\ out.intents[Len(intents) + 1][OutputField] = None
    /\ out.intents[Len(intents) + 1].execution_apy = None
    /\ out.intents[Len(intents) + 1].executed_at = None
    /\ out.intents[Len(intents) + 1].cancelled_at = None
    /\ out.intents[Len(intents) + 1].created_at = now
    /\ out.intents[Len(intents) + 1].expires_at = now + ttl
    /\ out.user_accounts =
           [user_accounts EXCEPT ![user].active_intents = @ + 1,
                                 ![user].total_intents_created = @ + 1]
    /\ out.protocol_state =
           [protocol_state EXCEPT !.total_intents_created = @ + 1]
    /\ out.token_balance = token_balance

\* C13: a successful create yields a new Pending intent with no execution
\* results and expires_at = created_at + TTL (7 days in the production
\* program; 1 hour for a devnet swap, 2 hours for a devnet lend), and
\* increases the owner's active_intents, the owner's total_intents_created
\* and the protocol's total_intents_created by exactly 1 each.
CreateYieldsPendingIntent ==
    IF IsProduction
    THEN \A a \in CreateAttempts :
             a.out.result = "Ok" => CreatedPending(a.user, INTENT_EXPIRY_SECONDS, a.out)
    ELSE \A a \in DevnetCreateAttempts :
             a.out.result = "Ok" => CreatedPending(a.user, a.ttl, a.out)

\* every devnet execute instruction that can be submitted in the current
\* state, with the outcome its handler computes
DevnetExecuteAttempts ==
    { [path |-> "Swap", user |-> u, id |-> id, ua |-> ua,
       out |-> devnet_execute_swap_intent(u, id, ua, dst, x, overflow_checks)] :
          u \in Users, id \in IntentIds, ua \in Users, dst \in Users,
          x \in DevnetExpectedOutputs }
    \cup
    { [path |-> "Lend", user |-> u, id |-> id, ua |-> ua,
       out |-> devnet_execute_lend_intent(u, id, ua, y, overflow_checks)] :
          u \in Users, id \in IntentIds, ua \in Users, y \in DevnetActualApys }

\* the execute instructions of the deployed program
DeployedExecuteAttempts ==
    IF IsProduction THEN ExecuteAttempts ELSE DevnetExecuteAttempts

\* a successful settlement moved the intent's stored fee, and nothing else,
\* from the caller to the treasury, and left the stored fee as it was
ChargesStoredFee(a) ==
    /\ a.out.transfers[1] =
           [from |-> a.user, to |-> TREASURY, amount |-> intents[a.id].protocol_fee]
    /\ \A i \in 2 .. Len(a.out.transfers) : a.out.transfers[i].to # TREASURY
    /\ a.out.token_balance[TREASURY] =
           BigAdd(token_balance[TREASURY], intents[a.id].protocol_fee)
    /\ a.out.intents[a.id].protocol_fee = intents[a.id].protocol_fee

FloorOfRate(amount, fee_bps) ==
    BigDiv(BigMul(amount, U64(fee_bps)), U64(10000))

\* the fee stored on an intent is floor(amount * feeBps / 10000), is at most
\* the amount, is the same for the same amount, and is 300 (net 99700) for
\* amount 100000 at 30 bps
FeeOfIntent(id) ==
    /\ intents[id].protocol_fee =
           FloorOfRate(intents[id].amount, protocol_state.protocol_fee_bps)
    /\ BigLe(intents[id].protocol_fee, intents[id].amount)
    /\ \A other \in IntentIds :
           intents[other].amount = intents[id].amount =>
               intents[other].protocol_fee = intents[id].protocol_fee
    /\ (intents[id].amount = U64(100000) /\ protocol_state.protocol_fee_bps = 30) =>
           /\ intents[id].protocol_fee = U64(300)
           /\ net_amount_of(intents[id]) = U64(99700)

NeverStoredExpired ==
    /\ [](\A id \in IntentIds :
              intents[id].status \in {"Pending", "Executed", "Cancelled"})
    /\ [][now' # now => intents' = intents]_vars

\* an intent whose expiry has passed, still stored as Pending
NeverStoredExpiredWitness ==
    \E id \in IntentIds :
        /\ now > intents[id].expires_at
        /\ intents[id].status = "Pending"

\* C17: a Pending intent whose expiry has passed still counts in its owner's
\* active_intents, is refused by every execute path and stays Pending, and
\* can still be cancelled by its owner: that cancel succeeds, makes it
\* Cancelled and reduces the owner's active_intents by 1.
StaleIntentOnlyCancellable ==
    \A id \in IntentIds :
        (intents[id].status = "Pending" /\ now >= intents[id].expires_at) =>
            /\ user_accounts[intents[id].authority].active_intents > 0
            /\ \A a \in ExecuteAttempts :
                   a.id = id =>
                       /\ a.out.result # "Ok"
                       /\ transaction(a.out).intents[id].status = "Pending"
            /\ \A c \in CancelAttempts :
                   (c.id = id /\ ByOwner(c)) =>
                       /\ c.out.result = "Ok"
                       /\ c.out.intents[id].status = "Cancelled"
                       /\ c.out.user_accounts[c.user].active_intents =
                              user_accounts[c.user].active_intents - 1

\* route quotes a caller can attach to the aggregator instruction: the input
\* amount, the slippage and the quoted output each matching or not matching
\* the request
RouteQuotes ==
    { [in_amount |-> i, quoted_out_amount |-> q, slippage_bps |-> s,
       platform_fee_bps |-> 0] :
          i \in { U64(99700), U64(1) }, q \in { U64(94715), U64(200000) },
          s \in { 100, 5000 } }

\* the request execute_swap_intent_jupiter builds for an intent
JupiterParamsOf(intent_account) ==
    [from_mint        |-> intent_account.from_mint,
     to_mint          |-> intent_account.to_mint,
     amount           |-> net_amount_of(intent_account),
     slippage_bps     |-> intent_account.max_slippage,
     platform_fee_bps |-> 0]

\* C18: an aggregator execution succeeds only if the route quote's input
\* amount equals the intent's net amount and the quote's slippage equals the
\* intent's max_slippage, and the execution_price it then records on the
\* intent is the quote's quoted_out_amount.
JupiterQuoteValidated ==
    \A u \in Users, id \in IntentIds, ua \in Users, d \in RouteQuotes :
        LET out == execute_swap_intent_jupiter(u, id, ua, d, overflow_checks)
            quote == execute_jupiter_swap(JupiterParamsOf(intents[id]), d)
        IN  out.result = "Ok" =>
               /\ quote.result = "Ok"
               /\ transaction(out).intents[id].execution_price = Some(quote.v)

\* every pause_protocol and unpause_protocol instruction that can be
\* submitted in the current state; flag is the value the handler writes
PauseAttempts ==
    { [signer |-> s, flag |-> TRUE, out |-> pause_protocol(s)] : s \in Signers }
    \cup
    { [signer |-> s, flag |-> FALSE, out |-> unpause_protocol(s)] : s \in Signers }

\* the attempt is refused with Unauthorized and nothing is written
RefusedUnauthorized(a) ==
    /\ a.out.result = "Unauthorized"
    /\ LedgerAfter(a.out) = << protocol_state, user_accounts, intents, token_balance >>

\* the attempt sets the flag and writes nothing else
SetsOnlyTheFlag(a) ==
    /\ a.out.result = "Ok"
    /\ LedgerAfter(a.out) =
          << [protocol_state EXCEPT !.is_paused = a.flag],
             user_accounts, intents, token_balance >>

\* C19: pause_protocol and unpause_protocol called by anyone but the
\* protocol's authority fail with Unauthorized and leave protocol_state and
\* everything else unchanged; called by the authority they set is_paused and
\* touch neither the fee rate, the counters, the user accounts, the intents
\* nor any balance; and in every step in which is_paused changes nothing
\* else of the program's accounts changes.
PauseIsAdminOnly ==
    /\ [](\A a \in PauseAttempts :
             IF a.signer = protocol_state.authority
             THEN SetsOnlyTheFlag(a) ELSE RefusedUnauthorized(a))
    /\ [][ protocol_state'.is_paused # protocol_state.is_paused =>
              /\ protocol_state' =
                    [protocol_state EXCEPT !.is_paused = ~protocol_state.is_paused]
              /\ UNCHANGED << user_accounts, intents, token_balance >> ]_vars

\* the protocol is paused after an intent was created and executed, so the
\* counters, the fees and the balances the pause left alone are not the
\* initial ones
PauseIsAdminOnlyWitness ==
    /\ protocol_state.is_paused
    /\ Len(intents) > 0
    /\ intents[1].status = "Executed"
    /\ protocol_state.total_fees_collected # Big0

\* every lend execute instruction that can be submitted in the current
\* state, with the token accounts the caller passes; venue is the receiving
\* account of the lending venue of the path
LendExecuteAttempts ==
    { [user |-> u, id |-> id, venue |-> SOLEND_LIQUIDITY,
       apy |-> execute_solend_lend(intents[id], d, overflow_checks),
       out |-> execute_lend_intent_solend_with(u, id, ua, t, dst, d, overflow_checks)] :
          u \in Users, id \in IntentIds, ua \in Users, t \in TokenAccounts,
          dst \in TokenAccounts, d \in SolendReserveSet }
    \cup
    { [user |-> u, id |-> id, venue |-> PORT_RESERVE,
       apy |-> execute_port_lend(intents[id], d, overflow_checks),
       out |-> execute_lend_intent_port_with(u, id, ua, t, dst, d, overflow_checks)] :
          u \in Users, id \in IntentIds, ua \in Users, t \in TokenAccounts,
          dst \in TokenAccounts, d \in PortReserveSet }

\* C20: a lend execution that succeeds adds exactly the intent's protocol_fee
\* to the treasury's balance and exactly amount - protocol_fee to the balance
\* of the venue's receiving account, takes exactly the intent's amount from
\* the caller's balance, and records as execution_apy the APY the venue
\* computes from the reserve data.
LendMovesFeeAndNet ==
    \A a \in LendExecuteAttempts :
        a.out.result = "Ok" =>
           LET after == transaction(a.out)
               fee   == intents[a.id].protocol_fee
               net   == BigSub(intents[a.id].amount, fee)
           IN  /\ after.token_balance[TREASURY] = BigAdd(token_balance[TREASURY], fee)
               /\ after.token_balance[a.venue] = BigAdd(token_balance[a.venue], net)
               /\ BigAdd(after.token_balance[a.user], intents[a.id].amount)
                     = token_balance[a.user]
               /\ after.intents[a.id].execution_apy = Some(a.apy.v)

\* q is the floor of n / d, stated without a division
IsFloorOf(q, n, d) ==
    /\ BigLe(BigMul(q, d), n)
    /\ BigLt(n, BigMul(BigAdd(q, U64(1)), d))

\* amount_in * (fee_denominator - fee_numerator) of the call
AmmInputWithFee ==
    BigMul(call.args.amount_in,
           BigSub(call.args.fee_denominator, call.args.fee_numerator))

\* the dividend and the divisor of the constant-product formula for the call
AmmDividend == BigMul(AmmInputWithFee, call.args.reserve_out)
AmmDivisor ==
    BigAdd(BigMul(call.args.reserve_in, call.args.fee_denominator), AmmInputWithFee)

AmmReturnedOk ==
    /\ call.op = "calculate_raydium_output"
    /\ Returned
    /\ Unwrap(call.result).ok

\* C21: whenever calculate_raydium_output returns a value, the value is the
\* floor of amount_in * (10000 - fee_numerator) * reserve_out divided by
\* reserve_in * 10000 + amount_in * (10000 - fee_numerator), the products
\* taken in full before the one division.
RaydiumOutputIsFloor ==
    AmmReturnedOk => IsFloorOf(Unwrap(call.result).v, AmmDividend, AmmDivisor)

\* a call that returned a value whose quotient is not whole and whose
\* divide-first evaluation would differ
RaydiumOutputIsFloorWitness ==
    /\ AmmReturnedOk
    /\ Unwrap(call.result).v # Big0
    /\ BigMul(Unwrap(call.result).v, AmmDivisor) # AmmDividend
    /\ BigLt(AmmInputWithFee, AmmDivisor)

\* the call of the worked example: 10,000 in against reserves of 1,000,000
\* and 2,000,000 at fee 25 / 10000
ScenarioCallReturned ==
    /\ call.op = "calculate_raydium_output"
    /\ call.args = [amount_in |-> U64(10000), reserve_in |-> U64(1000000),
                    reserve_out |-> U64(2000000),
                    fee_numerator |-> U64(RAYDIUM_FEE_NUMERATOR),
                    fee_denominator |-> U64(RAYDIUM_FEE_DENOMINATOR)]
    /\ Returned

\* C22 as stated: calculate_raydium_output(10000, 1000000, 2000000, 25, 10000)
\* returns 19,851.
ScenarioReturns19851 ==
    ScenarioCallReturned => call.result = Some([ok |-> TRUE, v |-> U64(19851)])

\* C22: calculate_raydium_output(10000, 1000000, 2000000, 25, 10000) returns
\* 19,752, the floor of 199,500,000,000,000 / 10,099,750,000.
ScenarioReturns19752 ==
    ScenarioCallReturned => call.result = Some([ok |-> TRUE, v |-> U64(19752)])

\* the call of the worked example has returned, and the quotient it floors
\* is the one of the formula
ScenarioReturnsWitness ==
    /\ ScenarioCallReturned
    /\ AmmDividend = BigMul(U64(199500000), U64(1000000))
    /\ AmmDivisor = BigAdd(BigMul(U64(10099), U64(1000000)), U64(750000))

\* the call with its reserve_out replaced by r, and with its reserve_in
\* replaced by r
WithReserveOut(r) ==
    calculate_raydium_output(call.args.amount_in, call.args.reserve_in, r,
                             call.args.fee_numerator, call.args.fee_denominator)

WithReserveIn(r) ==
    calculate_raydium_output(call.args.amount_in, r, call.args.reserve_out,
                             call.args.fee_numerator, call.args.fee_denominator)

\* C23: with amount_in and the fee fixed, a call of calculate_raydium_output
\* on a reserve_out at least as large returns at least as much, and a call
\* on a reserve_in at least as large returns at most as much, whenever both
\* calls return a value.
RaydiumOutputMonotone ==
    AmmReturnedOk =>
        \A r \in AmmReserves :
            /\ (BigLe(call.args.reserve_out, r) /\ WithReserveOut(r).ok)
                  => BigLe(Unwrap(call.result).v, WithReserveOut(r).v)
            /\ (BigLe(call.args.reserve_in, r) /\ WithReserveIn(r).ok)
                  => BigLe(WithReserveIn(r).v, Unwrap(call.result).v)

\* a call that returned, a larger reserve_out that yields strictly more and
\* a larger reserve_in that yields strictly less
RaydiumOutputMonotoneWitness ==
    /\ AmmReturnedOk
    /\ \E r \in AmmReserves :
          /\ BigLt(call.args.reserve_out, r) /\ WithReserveOut(r).ok
          /\ BigLt(Unwrap(call.result).v, WithReserveOut(r).v)
    /\ \E r \in AmmReserves :
          /\ BigLt(call.args.reserve_in, r) /\ WithReserveIn(r).ok
          /\ BigLt(WithReserveIn(r).v, Unwrap(call.result).v)

\* the call returned a value in u64
ReturnedU64(op) ==
    /\ call.op = op
    /\ Returned
    /\ Unwrap(call.result).ok

\* C24: whatever u64 arguments they are given, calculate_raydium_output, the
\* protocol fee computation and the minimum_amount_out computation return,
\* when they return at all, the exact floor of their quotient as a u64: the
\* value after the final `as u64` is the floor itself, never its low bits,
\* and an intermediate that does not fit its type aborts the call.
ExactOrFault ==
    /\ ReturnedU64("calculate_raydium_output") =>
          /\ IsFloorOf(Unwrap(call.result).v, AmmDividend, AmmDivisor)
          /\ BigLe(Unwrap(call.result).v, U64_MAX)
    /\ ReturnedU64("protocol_fee") =>
          /\ IsFloorOf(Unwrap(call.result).v,
                       BigMul(call.args.amount, U64(PROTOCOL_FEE_BPS)), U64(10000))
          /\ BigLe(Unwrap(call.result).v, U64_MAX)
    /\ ReturnedU64("minimum_amount_out") =>
          /\ IsFloorOf(Unwrap(call.result).v,
                       BigMul(call.args.base_output,
                              U64(10000 - call.args.max_slippage)),
                       U64(10000))
          /\ BigLe(Unwrap(call.result).v, U64_MAX)
    /\ (call.op = "calculate_raydium_output" /\ Returned /\ ~Unwrap(call.result).ok) =>
          \/ BigLt(call.args.fee_denominator, call.args.fee_numerator)
          \/ BigLt(U128_MAX, AmmDividend)
          \/ BigLt(U128_MAX, BigMul(call.args.reserve_in, call.args.fee_denominator))
          \/ BigLt(U128_MAX, AmmDivisor)
          \/ AmmDivisor = Big0
    /\ (call.op = "minimum_amount_out" /\ Returned /\ ~Unwrap(call.result).ok) =>
          call.args.max_slippage > 10000

\* a swap output that needs more than 32 bits came back whole
ExactOrFaultWitness ==
    /\ ReturnedU64("calculate_raydium_output")
    /\ BigLt(TwoPow32, Unwrap(call.result).v)
    /\ BigMul(Unwrap(call.result).v, AmmDivisor) # AmmDividend

\* the six ordered pairs of two different mints among SOL, USDC and USDT
MajorPairs ==
    { <<f, t>> \in { SOL_MINT, USDC_MINT, USDT_MINT } \X { SOL_MINT, USDC_MINT, USDT_MINT } :
          f # t }

\* 1000 units of a 6-decimal quote token
ThousandQuoteUnits == BigMul(U64(1000), U64(1000000))

\* C25: choose_best_protocol returns Jupiter for an amount strictly above
\* 1000 quote units whatever the pair; otherwise Raydium when (from_mint,
\* to_mint) is one of the six major pairs, and Jupiter when it is not; the
\* result depends on nothing but the three arguments.
RouterDecision ==
    (call.op = "choose_best_protocol" /\ Returned) =>
        /\ Unwrap(call.result) =
              IF BigLt(ThousandQuoteUnits, call.args.amount) THEN "Jupiter"
              ELSE IF <<call.args.from_mint, call.args.to_mint>> \in MajorPairs
              THEN "Raydium"
              ELSE "Jupiter"
        /\ Unwrap(call.result) =
              choose_best_protocol(call.args.from_mint, call.args.to_mint,
                                   call.args.amount)

\* a trade of exactly the threshold on a major pair was routed to Raydium
RouterDecisionWitness ==
    /\ call.op = "choose_best_protocol"
    /\ Returned
    /\ call.args.amount = ThousandQuoteUnits
    /\ call.args.from_mint = USDC_MINT
    /\ call.args.to_mint = SOL_MINT
    /\ Unwrap(call.result) = "Raydium"

\* 10,000 units of a 6-decimal token
TenThousandUnits == BigMul(U64(10000), U64(1000000))

\* the venue the claim names for an amount
LendingVenueFor(amount) ==
    IF BigLt(TenThousandUnits, amount) THEN "Solend" ELSE "PortFinance"

\* C26: choose_best_lending_protocol returns Solend for an amount strictly
\* above 10,000 units and PortFinance otherwise, whatever the mint, and a
\* lend intent that create_lend_intent creates has exactly that venue as
\* its selected_lending_protocol.
LendingRouterDecision ==
    /\ (call.op = "choose_best_lending_protocol" /\ Returned) =>
          Unwrap(call.result) = LendingVenueFor(call.args.amount)
    /\ (call.op = "create_lend_intent" /\ Returned /\ Unwrap(call.result) = "Ok") =>
          /\ Len(intents) = 1
          /\ intents[1].amount = call.args.params.amount
          /\ intents[1].selected_lending_protocol
                = Some(LendingVenueFor(call.args.params.amount))

\* a lend intent of exactly 10,000 units was created with PortFinance
LendingRouterDecisionWitness ==
    /\ call.op = "create_lend_intent"
    /\ Returned
    /\ Unwrap(call.result) = "Ok"
    /\ call.args.params.amount = TenThousandUnits
    /\ call.args.params.mint = SOL_MINT
    /\ intents[1].selected_lending_protocol = Some("PortFinance")

\* a yield computation of either venue has returned
ApyReturned ==
    Returned /\ call.op \in {"calculate_lending_apy", "calculate_port_apy"}

\* the build computes x without an arithmetic fault and its value is expected
Yields(x, expected) == ~XFaults(x, overflow_checks) /\ x.v = expected

\* the piecewise-linear interpolation of the borrow rate at utilization u
\* (basis points), in unbounded integers
InterpolatedBorrowApy(u, config) ==
    IF u <= config.optimal_utilization_rate * 100
    THEN config.min_borrow_rate
         + ((config.optimal_borrow_rate - config.min_borrow_rate) * u)
               \div (config.optimal_utilization_rate * 100)
    ELSE config.optimal_borrow_rate
         + ((config.max_borrow_rate - config.optimal_borrow_rate)
                * (u - config.optimal_utilization_rate * 100))
               \div (10000 - config.optimal_utilization_rate * 100)

\* the utilization the computation used, as a plain integer
UtilizationUsed == BigToNat(Unwrap(call.result).utilization_rate.v)

\* the interpolation is defined at the utilization used
InterpolationDefined ==
    UtilizationUsed <= call.args.reserve.config.optimal_utilization_rate * 100
        => call.args.reserve.config.optimal_utilization_rate > 0

\* C27: for both lending venues the borrow rate is
\* minRate + floor((optimalRate - minRate) * u / optU) when u <= optU and
\* optimalRate + floor((maxRate - optimalRate) * (u - optU) / (10000 - optU))
\* when u > optU; at u = optU it is exactly optimalRate.
BorrowApyIsInterpolation ==
    (ApyReturned /\ InterpolationDefined) =>
        Yields(Unwrap(call.result).borrow_apy,
               U64(InterpolatedBorrowApy(UtilizationUsed, call.args.reserve.config)))

\* the borrowed liquidity of the reserve snapshot of the call
BorrowedLiquidity ==
    IF call.op = "calculate_lending_apy"
    THEN call.args.reserve.liquidity.borrowed_amount_wads
    ELSE call.args.reserve.liquidity.borrowed_amount

\* available + borrowed, in unbounded integers
TotalLiquidity ==
    BigAdd(call.args.reserve.liquidity.available_amount, BorrowedLiquidity)

\* C28: for both lending venues and every reserve snapshot with
\* available + borrowed > 0, the utilization fed into the interest curve is
\* floor(borrowed * 10000 / (available + borrowed)) basis points; a pool with
\* available = 0 and borrowed > 0 has utilization 10000.
UtilizationIsBorrowedShare ==
    (ApyReturned /\ TotalLiquidity # Big0) =>
        Yields(Unwrap(call.result).utilization_rate,
               BigDiv(BigMul(BorrowedLiquidity, U64(10000)), TotalLiquidity))

\* the reserve snapshot of the call has no liquidity
NoLiquidity ==
    /\ call.args.reserve.liquidity.available_amount = Big0
    /\ BorrowedLiquidity = Big0

\* C29: when a reserve snapshot has no liquidity (available = 0 and
\* borrowed = 0), both venues take utilization = 0 instead of dividing by
\* zero, and the computation returns a rate rather than faulting.
NoLiquidityGivesARate ==
    (ApyReturned /\ NoLiquidity) =>
        /\ Yields(Unwrap(call.result).utilization_rate, Big0)
        /\ Unwrap(call.result).final.ok

\* the venue's share of the borrow rate, in percent
ConversionFactor ==
    IF call.op = "calculate_lending_apy" THEN SOLEND_LENDING_SHARE
    ELSE PORT_LENDING_SHARE

\* the curve produced a borrow rate in this build
BorrowRateProduced ==
    ApyReturned /\ ~XFaults(Unwrap(call.result).borrow_apy, overflow_checks)

\* C30: for every borrow rate the curve can produce, lendingApy is
\* floor(borrowApy * factor / 100) with factor 70 for the primary lender and
\* 75 for the secondary lender, and the lending yield is strictly less than
\* the borrow rate.
LendingYieldBelowBorrowRate ==
    BorrowRateProduced =>
        /\ Unwrap(call.result).final.ok
        /\ U64(Unwrap(call.result).final.v)
              = BigDiv(BigMul(Unwrap(call.result).borrow_apy.v, U64(ConversionFactor)),
                       U64(100))
        /\ BigLt(U64(Unwrap(call.result).final.v), Unwrap(call.result).borrow_apy.v)

\* the venue and yield the claim names for two reported yields: the strictly
\* higher one, the first-listed venue on a tie
BestYieldOf(solend_apy, port_apy) ==
    IF solend_apy >= port_apy
    THEN [protocol |-> "Solend", apy |-> solend_apy]
    ELSE [protocol |-> "PortFinance", apy |-> port_apy]

RaydiumRecordsBaseOutput ==
    \A u \in Users, id \in IntentIds, d \in RaydiumPoolInfoSet :
        execute_swap_intent_raydium(u, id, u, d, overflow_checks).result = "Ok" =>
            execute_swap_intent_raydium(u, id, u, d, overflow_checks)
                    .intents[id].execution_price
                = Some(base_output_of(intents[id], d).v)

\* the borrow rate of the reserve of the call evaluates to the given percentage
BorrowRateIs(percent) ==
    Yields(BorrowCurve(SolendUtilization(call.args.reserve_data),
                       call.args.reserve_data.config),
           U64(percent))

\* C33: the yield execute_solend_lend compares with the intent's min_apy is
\* in the unit of min_apy, basis points: a reserve whose borrow rate is 10%
\* yields 700 on the 70% venue, so a lend intent with min_apy 500 executes
\* against it, and one with a min_apy above 700 does not.
LendYieldInBasisPoints ==
    (/\ call.op = "execute_solend_lend"
     /\ Returned
     /\ call.args.reserve_data.liquidity.mint_pubkey = call.args.intent_account.from_mint
     /\ BorrowRateIs(10)) =>
        IF Unwrap(call.args.intent_account.min_apy) <= 700
        THEN Unwrap(call.result) = [result |-> "Ok", v |-> 700]
        ELSE Unwrap(call.result).result = "APYTooLow"

\* C34: in the devnet program create is under the capacity guard of the
\* production program: a profile with 50 active intents cannot create
\* another, so active_intents never exceeds 50 and its u8 never overflows.
DevnetCapacityGuard ==
    \A u \in Users :
        /\ user_accounts[u].active_intents <= MAX_INTENTS_PER_USER
        /\ user_accounts[u].active_intents = MAX_INTENTS_PER_USER =>
              /\ devnet_create_swap_intent(u, USDC_MINT, SOL_MINT, SMALL_AMOUNT, 100,
                                           overflow_checks).result # "Ok"
              /\ devnet_create_lend_intent(u, USDC_MINT, SMALL_AMOUNT, 5,
                                           overflow_checks).result # "Ok"

\* the execution path of the attempt is not of the kind of its intent
ForeignKindPath(a) ==
    \/ intents[a.id].intent_type = "Lend" /\ a.path \in {"Jupiter", "Raydium"}
    \/ intents[a.id].intent_type \in {"Swap", "Buy"}
          /\ a.path \in {"Solend", "PortFinance"}

\* C35: an intent is executed only through a path of its own kind: a Lend
\* intent is refused by both swap execution paths and a Swap or Buy intent
\* by both lend execution paths, and the refused call changes no state.
ExecutedByOwnKindOnly ==
    \A a \in ExecuteAttempts :
        ForeignKindPath(a) =>
            /\ a.out.result # "Ok"
            /\ LedgerAfter(a.out) = ledger

\* the results of an execute handler that stopped at account validation or
\* at one of its three guards
GuardRefusals ==
    {"ConstraintRaw", "ConstraintSeeds", "IntentNotPending", "IntentExpired",
     "WrongProtocol"}

\* the intent's owner has an execution path that passes the venue guard
HasExecutionPath(id) ==
    \E a \in ExecuteAttempts :
        /\ a.id = id
        /\ a.user = intents[id].authority
        /\ a.ua = a.user
        /\ a.out.result \notin GuardRefusals

\* C36: every created intent selects a venue an execute instruction exists
\* for: a swap intent Jupiter or Raydium (never Orca), a lend intent Solend
\* or PortFinance (never Tulip or Francium), a buy intent Jupiter; hence
\* every Pending, unexpired intent has at least one execution path whose
\* venue guard passes.
SelectedVenueIsExecutable ==
    \A id \in IntentIds :
        /\ intents[id].intent_type = "Swap" =>
              intents[id].selected_swap_protocol \in {"Jupiter", "Raydium"}
        /\ intents[id].intent_type = "Lend" =>
              intents[id].selected_lending_protocol
                  \in {Some("Solend"), Some("PortFinance")}
        /\ intents[id].intent_type = "Buy" =>
              intents[id].selected_swap_protocol = "Jupiter"
        /\ (IsPending(intents[id]) /\ NotExpired(intents[id])) => HasExecutionPath(id)

\* a Pending swap intent between a major token and an unlisted one selected
\* Jupiter, and its owner's Jupiter execution succeeds
SelectedVenueIsExecutableWitness ==
    \E a \in ExecuteAttempts :
        /\ intents[a.id].intent_type = "Swap"
        /\ intents[a.id].to_mint = OTHER_MINT
        /\ IsPending(intents[a.id])
        /\ a.path = "Jupiter"
        /\ a.out.result = "Ok"

\* C37: an execute instruction signed by anyone but the intent's owner is
\* rejected on every execution path of the production and of the devnet
\* program, before any transfer, and changes no intent, user, protocol or
\* balance state.
OnlyOwnerExecutes ==
    \A a \in DeployedExecuteAttempts :
        a.user # intents[a.id].authority =>
            /\ a.out.result # "Ok"
            /\ a.out.transfers = <<>>
            /\ LedgerAfter(a.out) = ledger

\* on the devnet program an execution the owner could make succeeds for the
\* owner and is refused to another signer passing their own profile
OnlyOwnerExecutesWitness ==
    /\ ~IsProduction
    /\ \E a, b \in DevnetExecuteAttempts :
          /\ a.id = b.id /\ a.path = b.path
          /\ a.user = intents[a.id].authority /\ a.out.result = "Ok"
          /\ b.user # intents[b.id].authority /\ b.ua = b.user
          /\ b.out.result = "ConstraintRaw"

RECURSIVE SumOfCreated(_)
\* the sum of total_intents_created over a set of users
SumOfCreated(us) ==
    IF us = {} THEN 0
    ELSE LET u == CHOOSE x \in us : TRUE
         IN  user_accounts[u].total_intents_created + SumOfCreated(us \ {u})

RECURSIVE SumOfExecutedFees(_)
\* the sum of the stored protocol_fee over the Executed intents 1 .. n
SumOfExecutedFees(n) ==
    IF n = 0 THEN Big0
    ELSE IF intents[n].status = "Executed"
    THEN BigAdd(SumOfExecutedFees(n - 1), intents[n].protocol_fee)
    ELSE SumOfExecutedFees(n - 1)

ExecutedIntents == { id \in IntentIds : intents[id].status = "Executed" }

\* C38: in every reachable state of the production program,
\* total_intents_created is the number of intents that exist and the sum of
\* the users' total_intents_created, total_intents_executed is the number of
\* Executed intents (so executed <= created), and total_fees_collected is the
\* sum of the stored protocol_fee over the Executed intents.
GlobalCountersAgree ==
    /\ protocol_state.total_intents_created = Len(intents)
    /\ protocol_state.total_intents_created = SumOfCreated(Users)
    /\ protocol_state.total_intents_executed = Cardinality(ExecutedIntents)
    /\ protocol_state.total_intents_executed <= protocol_state.total_intents_created
    /\ protocol_state.total_fees_collected = SumOfExecutedFees(Len(intents))

\* two intents of different users and different fees are Executed, and a
\* third state of affairs, a cancelled or pending intent, is not needed: the
\* totals are sums of two terms
GlobalCountersAgreeWitness ==
    /\ Len(intents) = 2
    /\ intents[1].status = "Executed" /\ intents[2].status = "Executed"
    /\ intents[1].authority # intents[2].authority
    /\ intents[1].protocol_fee # intents[2].protocol_fee
    /\ protocol_state.total_intents_executed = 2

CreatedCounters ==
    << Len(intents), protocol_state.total_intents_created,
       [u \in Users |-> user_accounts[u].total_intents_created] >>

\* C39: while the protocol is paused every create is refused and changes
\* nothing, so that no step taken while paused adds an intent or raises a
\* created counter; and every execute and every cancel has the same result
\* and leaves the same accounts, the flag aside, just after the flag is
\* switched as just before.
PauseGatesCreationOnly ==
    /\ [](protocol_state.is_paused =>
              \A a \in CreateAttempts :
                  a.out.result # "Ok" /\ LedgerAfter(a.out) = ledger)
    /\ [][ protocol_state.is_paused => CreatedCounters' = CreatedCounters ]_vars
    /\ [](call.op \in {"pause_protocol", "unpause_protocol"} =>
              ExecuteAndCancelBehaviour = call.before)

\* the protocol has just been paused by its authority; a create is refused
\* for that reason, and an execute and a cancel of a pending intent are
\* accepted
PauseGatesCreationOnlyWitness ==
    /\ call.op = "pause_protocol" /\ call.result = "Ok"
    /\ protocol_state.is_paused
    /\ \E a \in CreateAttempts : a.out.result = "ProtocolPaused"
    /\ \E a \in ExecuteAttempts : a.out.result = "Ok" /\ IsPending(intents[a.id])
    /\ \E a \in CancelAttempts : a.out.result = "Ok" /\ IsPending(intents[a.id])

\* C40: every yield computation, of either venue and on every reserve
\* snapshot, returns a rate, and no step of it divides by zero or leaves the
\* range of its integer type.
LendingYieldIsTotal ==
    ApyReturned =>
        /\ ~Unwrap(call.result).utilization_rate.z
        /\ ~Unwrap(call.result).utilization_rate.o
        /\ ~Unwrap(call.result).borrow_apy.z
        /\ ~Unwrap(call.result).borrow_apy.o
        /\ Unwrap(call.result).final.ok

=============================================================================
